---- MODULE Spec2Model ----
(***************************************************************************)
(* A model of the ARF IDL front-end: frontend.Run (parse of the entry file *)
(* and its imports, then validatePhase1, validatePhase2, validatePhase3).  *)
(*                                                                         *)
(* Representation.                                                         *)
(*  - An identifier is a TLA+ string.  A dotted name ("org.example.S") is  *)
(*    the sequence of its components; strings.Split / strings.Join on "."  *)
(*    are sequence operations, and two dotted strings are equal exactly    *)
(*    when their component sequences are equal.                            *)
(*  - A Go pointer that may be nil is a sequence of length 0 or 1.         *)
(*  - A declaration (ast.Object that is a *Struct or an *Enum) is named by  *)
(*    the file it lives in and its index path from the top level, which    *)
(*    is what pointer identity distinguishes in the Go code.               *)
(*  - A source file on disk is given by its declarations as written; the   *)
(*    field "text" says whether its text lexes and parses at token level.  *)
(***************************************************************************)
EXTENDS Integers, Sequences, FiniteSets, TLC

VARIABLES
    disk,            \* path -> source file: what os.ReadFile finds
    pc,              \* position of the run inside frontend.Run
    callee,          \* <<path>> while frontend.parse(path) is being entered
    stack,           \* frames of the recursive frontend.parse
    processedPaths,  \* frontend.processedPaths
    files,           \* frontend.files: sequence of parsed files (keyed by path)
    calls,           \* the stages Run has started, in order
    stageErrs,       \* stage name -> the errors that stage returned
    ret,             \* what Run returned: [tree, err]
    opened,          \* the paths frontend.parse has read, lexed and parsed, in order
    again,           \* the outcome of a second validatePhase2 over the same files
    lx,              \* the lexer of one lexFile call (lexer struct)
    vd,              \* one validate call of the tree-based front-end (validator.go)
    pa               \* the parser of one parse call over a token sequence

vars == <<disk, pc, callee, stack, processedPaths, files, calls, stageErrs, ret,
          opened, again, lx, vd, pa>>

(***************************************************************************)
(* Bounds of the explored inputs.                                          *)
(***************************************************************************)
MaxTypeSize == 5
MaxParams == 2
MaxBlocks == 2
MaxStack == 3
MaxDepth == 2
MaxMembers == 2

(***************************************************************************)
(* Generic helpers.                                                        *)
(***************************************************************************)
Range(s) == {s[i] : i \in 1..Len(s)}

RECURSIVE Flatten(_)
Flatten(ss) == IF ss = <<>> THEN <<>> ELSE Head(ss) \o Flatten(Tail(ss))

Last(s) == s[Len(s)]

SeqMap(Op(_), s) == [i \in 1..Len(s) |-> Op(s[i])]

IsPrefix(a, b) == Len(a) <= Len(b) /\ SubSeq(b, 1, Len(a)) = a

(***************************************************************************)
(* Names.  The regular expressions and the keyword table of the parser are *)
(* tables over the identifiers the explored inputs use.                    *)
(***************************************************************************)
reservedNames ==
    {"package", "import", "as", "struct", "enum", "service", "optional",
     "map", "array", "stream", "string", "int8", "int16", "int32", "int64",
     "uint8", "uint16", "uint32", "uint64", "float32", "float64", "bool",
     "bytes", "timestamp"}

primitives ==
    {"string", "int8", "int16", "int32", "int64", "uint8", "uint16",
     "uint32", "uint64", "float32", "float64", "bool", "bytes", "timestamp"}

\* The identifiers of the inputs, in ascending byte order (Go's string <).
ByteOrder ==
    <<"A", "B", "Bad", "C", "E", "K", "M", "Missing", "N", "S", "T", "U",
      "V", "X", "bb", "f", "g", "i", "m", "p", "q", "x", "y">>

UpperInitial == {"A", "B", "Bad", "C", "E", "K", "M", "Missing", "N", "S", "T",
                 "U", "V", "X"}

\* ^[A-Z]+[a-zA-Z0-9]*$
camelCaseRegex(s) == s \in UpperInitial

\* ^[a-z]+[a-z_0-9]*$
snakeCaseRegex(s) == s \in (Range(ByteOrder) \ UpperInitial) \cup reservedNames

\* ^[A-Z]+[A-Z_0-9]*$
screamingSnakeCaseRegex(s) == s \in {"A", "B", "C", "E", "K", "M", "N", "S",
                                     "T", "U", "V", "X"}

\* unicode.IsLower of the first rune
IsLowerInitial(s) == s \in (Range(ByteOrder) \ UpperInitial) \cup reservedNames

Rank(a) == CHOOSE i \in 1..Len(ByteOrder) : ByteOrder[i] = a

\* Go's < on two dotted strings, given as component sequences: '.' sorts
\* before every identifier character, so the order is the lexicographic
\* order of the component sequences.
RECURSIVE StrLess(_, _)
StrLess(a, b) ==
    IF b = <<>> THEN FALSE
    ELSE IF a = <<>> THEN TRUE
    ELSE IF Head(a) = Head(b) THEN StrLess(Tail(a), Tail(b))
    ELSE Rank(Head(a)) < Rank(Head(b))

\* sort.Sort(sort.Reverse(sort.StringSlice(comps))): descending order.
RECURSIVE InsertDesc(_, _)
InsertDesc(x, s) ==
    IF s = <<>> THEN <<x>>
    ELSE IF StrLess(Head(s), x) THEN <<x>> \o s
    ELSE <<Head(s)>> \o InsertDesc(x, Tail(s))

RECURSIVE SortDesc(_)
SortDesc(s) == IF s = <<>> THEN <<>> ELSE InsertDesc(Head(s), SortDesc(Tail(s)))

(***************************************************************************)
(* ast.Type                                                                *)
(***************************************************************************)
MkType(k, name, sub) ==
    [k |-> k, name |-> name, sub |-> sub, res |-> <<>>, fqn |-> <<>>]

Prim(n) == MkType("prim", <<n>>, <<>>)
Simple(n) == MkType("simple", <<n>>, <<>>)
FQ(comps) == MkType("fq", comps, <<>>)
Opt(t) == MkType("opt", <<>>, <<t>>)
Arr(t) == MkType("arr", <<>>, <<t>>)
MapT(key, val) == MkType("map", <<>>, <<key, val>>)

\* ast.ResolvableType: *SimpleUserType and *FullQualifiedType
IsResolvable(t) == t.k \in {"simple", "fq"}

\* The user type references inside a type, in the order resolveType meets them.
RECURSIVE Refs(_)
Refs(t) ==
    IF IsResolvable(t) THEN <<t>>
    ELSE IF t.k \in {"opt", "arr"} THEN Refs(t.sub[1])
    ELSE IF t.k = "map" THEN Refs(t.sub[1]) \o Refs(t.sub[2])
    ELSE <<>>

(***************************************************************************)
(* Declarations.                                                           *)
(***************************************************************************)
MkField(name, type) == [name |-> name, type |-> type]
MkStruct(name, fields, structs, enums) ==
    [name |-> name, fields |-> fields, structs |-> structs, enums |-> enums]
MkMember(name, value) == [name |-> name, value |-> value]
MkEnum(name, members) == [name |-> name, members |-> members]
\* A parameter's Name is a *string: <<>> is nil.
MkParam(name, stream, type) == [name |-> name, stream |-> stream, type |-> type]
MkReturn(stream, type) == [stream |-> stream, type |-> type]
MkMethod(name, params, returns) ==
    [name |-> name, params |-> params, returns |-> returns]
MkService(name, methods) == [name |-> name, methods |-> methods]
MkImport(value, alias) == [value |-> value, alias |-> alias, resolved |-> ""]
MkFile(text, pkg, imports, structs, enums, services) ==
    [text |-> text, pkg |-> pkg, imports |-> imports, importAliases |-> <<>>,
     structs |-> structs, enums |-> enums, services |-> services]

\* An ast.Object that is a declaration: the file and the index path.
StructObj(path, ip) == [file |-> path, kind |-> "struct", ip |-> ip]
EnumObj(path, ip) == [file |-> path, kind |-> "enum", ip |-> ip]

(***************************************************************************)
(* Navigation: Struct.Structs / Struct.Enums / Parent by index path.       *)
(***************************************************************************)
RECURSIVE SubStruct(_, _)
SubStruct(s, ip) ==
    IF ip = <<>> THEN s ELSE SubStruct(s.structs[Head(ip)], Tail(ip))

StructAt(f, ip) == SubStruct(f.structs[Head(ip)], Tail(ip))

EnumAt(f, ip) ==
    IF Len(ip) = 1 THEN f.enums[ip[1]]
    ELSE StructAt(f, SubSeq(ip, 1, Len(ip) - 1)).enums[Last(ip)]

\* The names of the enclosing structs of the declaration at ip, innermost
\* first: the walk p = s.Parent; p != nil; p = p.Parent.
ParentNames(f, ip) ==
    [j \in 1..(Len(ip) - 1) |-> <<StructAt(f, SubSeq(ip, 1, Len(ip) - j)).name>>]

\* Struct.BaseFQN: the parents' names and the package value, sorted in
\* descending string order, joined by ".".
StructBaseFQN(f, ip) == Flatten(SortDesc(ParentNames(f, ip) \o <<f.pkg>>))

\* Struct.FQN
StructFQN(f, ip) == StructBaseFQN(f, ip) \o <<StructAt(f, ip).name>>

\* Enum.FQN: the enum's own name is sorted together with the parents' names
\* and the package value.
EnumFQN(f, ip) ==
    Flatten(SortDesc(<<<<EnumAt(f, ip).name>>>> \o ParentNames(f, ip) \o <<f.pkg>>))

\* Service.FQN
ServiceFQN(f, s) == f.pkg \o <<s.name>>

\* Object.FQN of a resolved declaration
ObjFQN(fs, o) ==
    IF o.kind = "struct" THEN StructFQN(fs[o.file], o.ip)
    ELSE EnumFQN(fs[o.file], o.ip)

\* File.FindEnum / Struct.FindEnum: the first enum of that name in the
\* container (ip = <<>> is the file itself), as a pointer.
EnumsOf(f, ip) == IF ip = <<>> THEN f.enums ELSE StructAt(f, ip).enums
StructsOf(f, ip) == IF ip = <<>> THEN f.structs ELSE StructAt(f, ip).structs

FirstNamed(s, name) ==
    LET hits == {i \in 1..Len(s) : s[i].name = name}
    IN IF hits = {} THEN 0 ELSE CHOOSE i \in hits : \A j \in hits : i <= j

FindEnum(fs, path, ip, name) ==
    LET i == FirstNamed(EnumsOf(fs[path], ip), name)
    IN IF i = 0 THEN <<>> ELSE <<EnumObj(path, ip \o <<i>>)>>

FindStruct(fs, path, ip, name) ==
    LET i == FirstNamed(StructsOf(fs[path], ip), name)
    IN IF i = 0 THEN <<>> ELSE <<StructObj(path, ip \o <<i>>)>>

(***************************************************************************)
(* parse (the recursive-descent parser): what its methods share.  Every    *)
(* p.errorf is one entry of the returned error list.                       *)
(***************************************************************************)
ErrIf(cond, kind) == IF cond THEN <<kind>> ELSE <<>>

\* Fault injection: a parseServiceMethod without the two loops.
StreamNotLastUnchecked(list) == FALSE

\* parseServiceMethod, the two loops after the returns are parsed: an entry
\* that follows a stream entry is an error (one error, then break).
StreamNotLast(list) ==
    \E i \in 1..Len(list) : \E j \in 1..Len(list) : i < j /\ list[i].stream

\* parseRootItem, case "service": a block whose name an earlier service
\* carries has its methods appended to that service (AppendMethod);
\* otherwise the block becomes a new service.
RECURSIVE MergeServices(_, _)
MergeServices(acc, blocks) ==
    IF blocks = <<>> THEN acc
    ELSE LET b == Head(blocks)
             i == FirstNamed(acc, b.name)
         IN MergeServices(
                IF i = 0 THEN Append(acc, b)
                ELSE [acc EXCEPT ![i].methods = @ \o b.methods],
                Tail(blocks))

\* The decimal numbers of the inputs.
Digits == <<"0", "1", "2", "3", "4", "5", "6", "7", "8", "9">>

(***************************************************************************)
(* The parser over tokens (parse and the parser methods).  A token is      *)
(* [type, value, line]; pos counts from 0 as in the code.  A run that      *)
(* panics carries the reason in crash: from then on every method leaves    *)
(* the parser as it is, peek yields a token of no type and eof holds, so   *)
(* that every loop ends and the panic is what the run ends with.           *)
(* Methods that return a value yield [p, v]: the parser after the call     *)
(* and the value; a nil pointer is <<>>.                                   *)
(***************************************************************************)
\* The one element of a set: "Only({e : x \in {v}})" is e with x standing
\* for the value of v.
Only(S) == CHOOSE y \in S : TRUE

Tok(type, value, line) == [type |-> type, value |-> value, line |-> line]

\* parse, "p := parser{...}"
newParser(tokens) ==
    [tokens |-> tokens, pos |-> 0, errors |-> <<>>, comments |-> <<>>,
     annotations |-> <<>>, crash |-> "",
     file |-> [package |-> <<>>, imports |-> <<>>, structs |-> <<>>, enums |-> <<>>,
               services |-> <<>>]]

Crashed(p) == p.crash # ""

\* p.tokens[p.pos] with p.pos past the last token: index out of range.
indexed(p) ==
    IF Crashed(p) \/ p.pos < Len(p.tokens) THEN p ELSE [p EXCEPT !.crash = "index"]

\* A nil *token is dereferenced.
nilDeref(p) == IF Crashed(p) THEN p ELSE [p EXCEPT !.crash = "nil"]

\* peek, on a parser that went through indexed.
parserPeek(p) == IF Crashed(p) THEN Tok("", "", 0) ELSE p.tokens[p.pos + 1]

\* advance: the parser after it.
parserAdvance(p) ==
    IF Crashed(p) THEN p
    ELSE IF p.pos >= Len(p.tokens) THEN [p EXCEPT !.crash = "index"]
    ELSE [p EXCEPT !.pos = @ + 1]

parserEof(p) ==
    Crashed(p) \/ p.pos >= Len(p.tokens) \/ p.tokens[p.pos + 1].type = "EOF"

parserErrorf(p, kind) ==
    IF Crashed(p) THEN p ELSE [p EXCEPT !.errors = Append(@, kind)]

\* expect: [p, v], v the token as <<token>>, or <<>> for nil.
expect(p, expected) ==
    IF Crashed(p) THEN [p |-> p, v |-> <<>>]
    ELSE IF p.pos >= Len(p.tokens) THEN [p |-> [p EXCEPT !.crash = "index"], v |-> <<>>]
    ELSE IF p.tokens[p.pos + 1].type # expected
    THEN [p |-> parserErrorf(p, "expected"), v |-> <<>>]
    ELSE [p |-> [p EXCEPT !.pos = @ + 1], v |-> <<p.tokens[p.pos + 1]>>]

RECURSIVE discardComments(_)
discardComments(p) ==
    Only({IF parserPeek(q).type = "Comment" THEN discardComments(parserAdvance(q)) ELSE q :
          q \in {indexed(p)}})

\* The loop of consumeUntilSemiOrLinebreak; every round peeks.
RECURSIVE consumeLoop(_, _)
consumeLoop(p, currentLine) ==
    Only({IF Crashed(q) THEN q
          ELSE IF parserPeek(q).type = "Semi" THEN parserAdvance(q)
          ELSE IF parserPeek(q).line # currentLine THEN q
          ELSE consumeLoop(parserAdvance(q), currentLine) :
          q \in {indexed(p)}})

consumeUntilSemiOrLinebreak(p) ==
    Only({IF Crashed(q) THEN q ELSE consumeLoop(q, parserPeek(q).line) :
          q \in {indexed(p)}})

\* A step that failed: panic-mode recovery, then "return v".
recovered(p, v) == [p |-> consumeUntilSemiOrLinebreak(p), v |-> v]

\* The first loop of parsePackage: [p, components, returned].
RECURSIVE packageLoop(_, _)
packageLoop(p, components) ==
    IF parserEof(p) THEN [p |-> p, components |-> components, returned |-> FALSE]
    ELSE IF parserPeek(p).type # "Identifier"
    THEN [p |-> consumeUntilSemiOrLinebreak(parserErrorf(p, "expected identifier")),
          components |-> components, returned |-> TRUE]
    ELSE Only({IF parserPeek(q).type # "Period"
               THEN [p |-> q, components |-> Append(components, parserPeek(p).value),
                     returned |-> FALSE]
               ELSE packageLoop(parserAdvance(q), Append(components, parserPeek(p).value)) :
               q \in {indexed(parserAdvance(p))}})

\* parsePackage, after the loop: the component checks and the ';'.
packageEnd(p, components) ==
    LET bad == {i \in 1..Len(components) : ~snakeCaseRegex(components[i])}
        checked == [p EXCEPT !.errors = @ \o [i \in 1..Cardinality(bad) |-> "package_name"]]
    IN IF Crashed(p) THEN p
       ELSE Only({IF r.v # <<>> THEN [r.p EXCEPT !.file.package = components] ELSE r.p :
                  r \in {expect(checked, "Semi")}})

parsePackage(p) ==
    Only({IF r.v = <<>> THEN r.p
          ELSE IF r.v[1].value # "package" THEN parserErrorf(r.p, "expected package")
          ELSE Only({IF l.returned THEN l.p ELSE packageEnd(l.p, l.components) :
                     l \in {packageLoop(r.p, <<>>)}}) :
          r \in {expect(p, "Identifier")}})

\* parseComments: the comments kept are the last run of comments on
\* consecutive lines.
RECURSIVE commentsLoop(_, _)
commentsLoop(p, last) ==
    Only({IF parserPeek(q).type # "Comment" THEN q
          ELSE commentsLoop(
                   [parserAdvance(q) EXCEPT
                       !.comments = Append(IF last # <<>>
                                              /\ parserPeek(q).line - last[1].line # 1
                                           THEN <<>> ELSE q.comments,
                                           parserPeek(q))],
                   <<parserPeek(q)>>) :
          q \in {indexed(p)}})

parseComments(p) ==
    IF Crashed(p) THEN p ELSE commentsLoop([p EXCEPT !.comments = <<>>], <<>>)

\* The argument loop of parseAnnotation: [p, params].  After a string the
\* loop goes on only if a comma follows, and then tests for a string again
\* without consuming the comma.
RECURSIVE annotationArgs(_, _)
annotationArgs(p, params) ==
    Only({IF parserPeek(q).type # "String" THEN [p |-> q, params |-> params]
          ELSE Only({IF parserPeek(r).type # "Comma"
                     THEN [p |-> r, params |-> Append(params, parserPeek(q).value)]
                     ELSE annotationArgs(r, Append(params, parserPeek(q).value)) :
                     r \in {indexed(parserAdvance(q))}}) :
          q \in {indexed(p)}})

\* "p.annotations = append(p.annotations, ast.Annotation{...})"
pushAnnotation(p, name, params) ==
    IF Crashed(p) THEN p
    ELSE [p EXCEPT !.annotations = Append(@, [name |-> name, arguments |-> params])]

\* parseAnnotation after "p.advance() // Consume LeftParen"
annotationTail(p, name) ==
    Only({Only({pushAnnotation(
                    expect(IF parserPeek(q).type \notin {"RightParen", "String"}
                           THEN parserErrorf(q, "expected ) or string") ELSE q,
                           "RightParen").p,
                    name, a.params) :
                q \in {indexed(a.p)}}) :
          a \in {annotationArgs(p, <<>>)}})

parseAnnotation(p) ==
    Only({IF r.v = <<>> THEN consumeUntilSemiOrLinebreak(r.p)
          ELSE Only({IF parserPeek(q).type # "LeftParen"
                     THEN pushAnnotation(q, r.v[1].value, <<>>)
                     ELSE annotationTail(parserAdvance(q), r.v[1].value) :
                     q \in {indexed(r.p)}}) :
          r \in {expect(parserAdvance(p), "Identifier")}})

RECURSIVE annotationsLoop(_)
annotationsLoop(p) ==
    Only({IF parserPeek(q).type = "AtSign" THEN annotationsLoop(parseAnnotation(q)) ELSE q :
          q \in {indexed(p)}})

parseAnnotations(p) ==
    IF Crashed(p) THEN p ELSE annotationsLoop([p EXCEPT !.annotations = <<>>])

\* takeAnnotations and takeComments: the parser after them; the values
\* taken are p.annotations and p.comments before.
takeAnnotations(p) == IF Crashed(p) THEN p ELSE [p EXCEPT !.annotations = <<>>]
takeComments(p) == IF Crashed(p) THEN p ELSE [p EXCEPT !.comments = <<>>]

commentsAsStrings(p) == [i \in 1..Len(p.comments) |-> p.comments[i].value]

\* parseImport after "as": "p.expect(tokenTypeIdentifier).Value" dereferences
\* what expect returned.
importAlias(p, value) ==
    Only({IF r.v = <<>> THEN [p |-> nilDeref(r.p), v |-> [value |-> "", alias |-> ""]]
          ELSE [p |-> expect(IF ~snakeCaseRegex(r.v[1].value)
                             THEN parserErrorf(r.p, "alias_name") ELSE r.p,
                             "Semi").p,
                v |-> [value |-> value, alias |-> r.v[1].value]] :
          r \in {expect(p, "Identifier")}})

\* parseImport: [p, v], v the import.
parseImport(p) ==
    Only({IF r.v = <<>> THEN recovered(r.p, [value |-> "", alias |-> ""])
          ELSE Only({IF parserPeek(q).type # "Identifier"
                     THEN [p |-> expect(q, "Semi").p,
                           v |-> [value |-> r.v[1].value, alias |-> ""]]
                     ELSE IF parserPeek(q).value # "as"
                     THEN recovered(parserErrorf(q, "expected as"),
                                    [value |-> "", alias |-> ""])
                     ELSE importAlias(parserAdvance(q), r.v[1].value) :
                     q \in {indexed(r.p)}}) :
          r \in {expect(parserAdvance(p), "String")}})

\* A nil ast.Type.
NilType == MkType("nil", <<>>, <<>>)

TypeOrNil(v) == IF v = <<>> THEN NilType ELSE v[1]

\* The nil a failed step of parseType returns, after panic-mode recovery.
typeFails(p) == recovered(p, <<>>)

\* parseType, the loop over the components of a dotted name: [p, v].
RECURSIVE composedLoop(_, _)
composedLoop(p, typeParts) ==
    IF parserEof(p) THEN [p |-> p, v |-> <<FQ(typeParts)>>]
    ELSE Only({IF r.v = <<>> THEN typeFails(r.p)
               ELSE Only({IF parserPeek(q).type = "Period"
                          THEN composedLoop(parserAdvance(q),
                                            Append(typeParts, r.v[1].value))
                          ELSE [p |-> q, v |-> <<FQ(Append(typeParts, r.v[1].value))>>] :
                          q \in {indexed(r.p)}}) :
               r \in {expect(p, "Identifier")}})

RECURSIVE parseType(_)

\* parseType, cases "array" and "optional", after the name.
enclosedType(p, kind) ==
    Only({IF o.v = <<>> THEN typeFails(o.p)
          ELSE Only({Only({IF c.v = <<>> THEN typeFails(c.p)
                           ELSE [p |-> c.p,
                                 v |-> <<IF kind = "array" THEN Arr(TypeOrNil(t.v))
                                         ELSE Opt(TypeOrNil(t.v))>>] :
                           c \in {expect(t.p, "RightAngled")}}) :
                     t \in {parseType(o.p)}}) :
          o \in {expect(p, "LeftAngled")}})

\* parseType, case "map", after the key type k.
mapValue(k) ==
    Only({IF s.v = <<>> THEN typeFails(s.p)
          ELSE Only({Only({IF c.v = <<>> THEN typeFails(c.p)
                           ELSE [p |-> c.p,
                                 v |-> <<MapT(TypeOrNil(k.v), TypeOrNil(t.v))>>] :
                           c \in {expect(t.p, "RightAngled")}}) :
                     t \in {parseType(s.p)}}) :
          s \in {expect(k.p, "Comma")}})

\* parseType, case "map", after the name.
mapType(p) ==
    Only({IF o.v = <<>> THEN typeFails(o.p)
          ELSE Only({mapValue(k) : k \in {parseType(o.p)}}) :
          o \in {expect(p, "LeftAngled")}})

\* parseType: [p, v], v the type as <<type>>, or <<>> for nil.
parseType(p) ==
    Only({IF r.v = <<>> THEN typeFails(r.p)
          ELSE IF r.v[1].value = "map" THEN mapType(r.p)
          ELSE IF r.v[1].value \in {"array", "optional"}
          THEN enclosedType(r.p, r.v[1].value)
          ELSE IF r.v[1].value \in primitives
          THEN [p |-> r.p, v |-> <<Prim(r.v[1].value)>>]
          ELSE Only({IF parserPeek(q).type = "Period"
                     THEN composedLoop(parserAdvance(q), <<r.v[1].value>>)
                     ELSE [p |-> q, v |-> <<Simple(r.v[1].value)>>] :
                     q \in {indexed(r.p)}}) :
          r \in {expect(p, "Identifier")}})

\* parseStructField: [p, v].
parseStructField(p) ==
    Only({Only({[p |-> IF s.v = <<>> THEN consumeUntilSemiOrLinebreak(s.p) ELSE s.p,
                 v |-> [name |-> parserPeek(indexed(p)).value, annotations |-> p.annotations,
                        comment |-> commentsAsStrings(p), type |-> TypeOrNil(t.v)]] :
                s \in {expect(t.p, "Semi")}}) :
          t \in {parseType(IF ~snakeCaseRegex(parserPeek(indexed(p)).value)
                           THEN parserErrorf(takeComments(takeAnnotations(parserAdvance(p))),
                                             "field_name")
                           ELSE takeComments(takeAnnotations(parserAdvance(p))))}})

\* strconv.Atoi fails on a number outside the range of int.
atoiFails(value) == value = "99999999999999999999"

\* strconv.Atoi on the decimal numbers of the inputs.
Atoi(value) == CHOOSE n \in 0..9 : Digits[n + 1] = value

\* parseEnumMember after the '=': the value and the ';'.
memberValue(p, m) ==
    Only({IF n.v = <<>> THEN recovered(n.p, m)
          ELSE Only({[p |-> IF s.v = <<>> THEN consumeUntilSemiOrLinebreak(s.p) ELSE s.p,
                      v |-> IF atoiFails(n.v[1].value) THEN m
                            ELSE [m EXCEPT !.value = Atoi(n.v[1].value)]] :
                     s \in {expect(IF atoiFails(n.v[1].value)
                                   THEN parserErrorf(n.p, "member_value") ELSE n.p,
                                   "Semi")}}) :
          n \in {expect(p, "Number")}})

\* parseEnumMember: [p, v].
parseEnumMember(p) ==
    Only({IF r.v = <<>>
          THEN recovered(r.p, [name |-> "", value |-> 0, comment |-> commentsAsStrings(p),
                               annotations |-> p.annotations])
          ELSE Only({IF e.v = <<>> THEN recovered(e.p, m) ELSE memberValue(e.p, m) :
                     e \in {expect(IF ~screamingSnakeCaseRegex(r.v[1].value)
                                   THEN parserErrorf(r.p, "member_name") ELSE r.p,
                                   "Equal")},
                     m \in {[name |-> r.v[1].value, value |-> 0,
                             comment |-> commentsAsStrings(p),
                             annotations |-> p.annotations]}}) :
          r \in {expect(takeAnnotations(takeComments(p)), "Identifier")}})

\* parseMethodParam: [p, v].
parseMethodParam(p) ==
    Only({IF r.v = <<>>
          THEN [p |-> r.p, v |-> [name |-> <<>>, stream |-> FALSE, type |-> NilType]]
          ELSE Only({[p |-> t.p,
                      v |-> [name |-> IF r.v[1].value = "stream" THEN <<>>
                                      ELSE <<r.v[1].value>>,
                             stream |-> r.v[1].value = "stream",
                             type |-> TypeOrNil(t.v)]] :
                     t \in {parseType(r.p)}}) :
          r \in {expect(p, "Identifier")}})

\* parseMethodParams, the loop: [p, v], v the list.
RECURSIVE paramsLoop(_, _)
paramsLoop(p, res) ==
    Only({IF res # <<>> /\ parserPeek(q).type # "Comma" THEN [p |-> q, v |-> res]
          ELSE Only({paramsLoop(r.p, Append(res, r.v)) :
                     r \in {parseMethodParam(IF res = <<>> THEN p ELSE parserAdvance(q))}}) :
          q \in {IF res = <<>> THEN p ELSE indexed(p)}})

\* parseMethodParams: the first parameter, then one more after every comma.
parseMethodParams(p) == paramsLoop(p, <<>>)

\* parseMethodReturn, "for !p.eof() && p.peek().Type != tokenTypeRightParen".
RECURSIVE skipTuple(_)
skipTuple(p) ==
    IF ~parserEof(p) /\ parserPeek(p).type # "RightParen" THEN skipTuple(parserAdvance(p))
    ELSE p

\* An ast.MethodReturn{Type: p.parseType(), Stream: stream}.
typedReturn(p, stream) ==
    Only({[p |-> t.p, v |-> [stream |-> stream, type |-> TypeOrNil(t.v)]] :
          t \in {parseType(p)}})

\* parseMethodReturn: [p, v].
parseMethodReturn(p) ==
    Only({IF parserPeek(q).type = "Identifier"
          THEN Only({IF parserPeek(q).value = "stream" /\ parserPeek(a).type = "LeftParen"
                     THEN [p |-> skipTuple(parserErrorf(a, "stream tuple")),
                           v |-> [stream |-> FALSE, type |-> NilType]]
                     ELSE typedReturn(IF parserPeek(q).value = "stream" THEN a ELSE q,
                                      parserPeek(q).value = "stream") :
                     a \in {indexed(parserAdvance(q))}})
          ELSE IF parserPeek(q).type = "LeftParen"
          THEN Only({[p |-> IF parserPeek(a).type = "RightParen" THEN parserAdvance(a) ELSE a,
                      v |-> [stream |-> FALSE, type |-> NilType]] :
                     a \in {indexed(parserAdvance(parserErrorf(q, "unexpected")))}})
          ELSE recovered(parserErrorf(q, "unexpected"),
                         [stream |-> FALSE, type |-> NilType]) :
          q \in {indexed(p)}})

\* parseMethodReturns, after the first return of a tuple: one more return
\* after every comma, then ')'.  [p, v], v the list.
RECURSIVE returnsLoop(_, _)
returnsLoop(p, rets) ==
    Only({IF parserPeek(q).type # "Comma"
          THEN [p |-> expect(q, "RightParen").p, v |-> rets]
          ELSE Only({returnsLoop(r.p, Append(rets, r.v)) :
                     r \in {parseMethodReturn(parserAdvance(q))}}) :
          q \in {indexed(p)}})

\* parseMethodReturns, the first return: of a tuple if the '(' was consumed.
firstReturn(p, tuple) ==
    Only({IF tuple THEN returnsLoop(r.p, <<r.v>>) ELSE [p |-> r.p, v |-> <<r.v>>] :
          r \in {parseMethodReturn(p)}})

\* parseMethodReturns: [p, v], v the list.
parseMethodReturns(p) ==
    Only({IF parserPeek(q).type = "Identifier" THEN firstReturn(q, FALSE)
          ELSE IF parserPeek(q).type = "LeftParen"
          THEN Only({IF parserPeek(a).type = "RightParen"
                     THEN [p |-> parserAdvance(a), v |-> <<>>]
                     ELSE firstReturn(a, TRUE) :
                     a \in {indexed(parserAdvance(q))}})
          ELSE recovered(parserErrorf(q, "unexpected"), <<>>) :
          q \in {indexed(p)}})

\* "if cond { p.errorf(...) }"
errorfIf(p, cond, kind) == IF cond THEN parserErrorf(p, kind) ELSE p

\* parseServiceMethod, the end: the stream checks and the ';'.
methodEnd(p, m) ==
    [p |-> expect(errorfIf(errorfIf(p, StreamNotLast(m.params), "stream_param_not_last"),
                           StreamNotLast(m.returns), "stream_return_not_last"),
                  "Semi").p,
     v |-> m]

\* parseServiceMethod from "if p.expect(tokenTypeRightParen) == nil".
methodClose(p, m) ==
    Only({IF c.v = <<>> THEN recovered(c.p, m)
          ELSE Only({IF parserPeek(q).type # "Arrow" THEN methodEnd(q, m)
                     ELSE Only({methodEnd(r.p, [m EXCEPT !.returns = r.v]) :
                                r \in {parseMethodReturns(parserAdvance(q))}}) :
                     q \in {indexed(c.p)}}) :
          c \in {expect(p, "RightParen")}})

\* parseServiceMethod after the '(': the parameters, unless ')' follows.
\* method.Params holds the parameters as written: each round of
\* "for _, param := range ... { method.AppendParam(&param) }" has a variable
\* of its own (the loop semantics of Go 1.22, which the repository's tests
\* rely on).
methodParams(p, m) ==
    Only({Only({methodClose(r.p, [m EXCEPT !.params = r.v]) :
                r \in {IF parserPeek(q).type # "RightParen" THEN parseMethodParams(q)
                       ELSE [p |-> q, v |-> m.params]}}) :
          q \in {indexed(p)}})

\* parseServiceMethod: [p, v].
parseServiceMethod(p) ==
    Only({IF r.v = <<>> THEN recovered(r.p, m)
          ELSE Only({IF o.v = <<>> THEN recovered(o.p, [m EXCEPT !.name = r.v[1].value])
                     ELSE methodParams(o.p, [m EXCEPT !.name = r.v[1].value]) :
                     o \in {expect(errorfIf(r.p, ~camelCaseRegex(r.v[1].value),
                                            "method_name"),
                                   "LeftParen")}}) :
          r \in {expect(takeAnnotations(takeComments(p)), "Identifier")},
          m \in {[name |-> "", comment |-> commentsAsStrings(p),
                  annotations |-> p.annotations, params |-> <<>>, returns |-> <<>>]}})

\* The head shared by parseStruct, parseEnum and parseService: the keyword
\* is consumed, comments and annotations are taken, the name is expected
\* and checked, '{' is expected.  [p, name].
declarationHead(p, kind) ==
    Only({[p |-> expect(IF r.v = <<>> THEN consumeUntilSemiOrLinebreak(r.p)
                        ELSE errorfIf(r.p, ~camelCaseRegex(r.v[1].value), kind),
                        "LeftCurly").p,
           name |-> IF r.v = <<>> THEN "" ELSE r.v[1].value] :
          r \in {expect(takeAnnotations(takeComments(parserAdvance(p))), "Identifier")}})

RECURSIVE parseDeclaration(_)
RECURSIVE structLoop(_, _)
RECURSIVE enumLoop(_, _)
RECURSIVE serviceLoop(_, _)

\* The loop of parseStruct: [p, v], v the struct so far.
structLoop(p, str) ==
    IF parserEof(p) THEN [p |-> p, v |-> str]
    ELSE IF parserPeek(p).type = "Identifier"
    THEN IF parserPeek(p).value \in {"struct", "enum", "service"}
         THEN Only({structLoop(r.p,
                               IF parserPeek(p).value = "struct"
                               THEN [str EXCEPT !.structs = Append(@, r.v)]
                               ELSE IF parserPeek(p).value = "enum"
                               THEN [str EXCEPT !.enums = Append(@, r.v)]
                               ELSE str) :
                    r \in {parseDeclaration(errorfIf(p, parserPeek(p).value = "service",
                                                     "service in struct"))}})
         ELSE IF parserPeek(p).value \in reservedNames
         THEN structLoop(consumeUntilSemiOrLinebreak(parserErrorf(p, "reserved")), str)
         ELSE Only({structLoop(r.p, [str EXCEPT !.fields = Append(@, r.v)]) :
                    r \in {parseStructField(p)}})
    ELSE IF parserPeek(p).type = "AtSign" THEN structLoop(parseAnnotations(p), str)
    ELSE IF parserPeek(p).type = "Comment" THEN structLoop(parseComments(p), str)
    ELSE IF parserPeek(p).type = "RightCurly" THEN [p |-> p, v |-> str]
    ELSE structLoop(consumeUntilSemiOrLinebreak(parserErrorf(p, "unexpected")), str)

\* parseStruct: [p, v].
parseStruct(p) ==
    Only({Only({[p |-> expect(r.p, "RightCurly").p, v |-> r.v] :
                r \in {structLoop(h.p, [name |-> h.name, comment |-> commentsAsStrings(p),
                                        annotations |-> p.annotations, fields |-> <<>>,
                                        structs |-> <<>>, enums |-> <<>>])}}) :
          h \in {declarationHead(p, "struct_name")}})

\* The loop of parseEnum: [p, v], v the enum so far.
enumLoop(p, en) ==
    IF parserEof(p) THEN [p |-> p, v |-> en]
    ELSE IF parserPeek(p).type = "Identifier"
    THEN IF parserPeek(p).value \in {"struct", "enum", "service"}
         THEN enumLoop(parseDeclaration(
                           parserErrorf(p, IF parserPeek(p).value = "struct"
                                           THEN "struct in enum"
                                           ELSE IF parserPeek(p).value = "enum"
                                           THEN "enum in enum"
                                           ELSE "service in enum")).p,
                       en)
         ELSE IF parserPeek(p).value \in reservedNames
         THEN enumLoop(consumeUntilSemiOrLinebreak(parserErrorf(p, "reserved")), en)
         ELSE Only({enumLoop(r.p, [en EXCEPT !.members = Append(@, r.v)]) :
                    r \in {parseEnumMember(p)}})
    ELSE IF parserPeek(p).type = "AtSign" THEN enumLoop(parseAnnotations(p), en)
    ELSE IF parserPeek(p).type = "Comment" THEN enumLoop(parseComments(p), en)
    ELSE IF parserPeek(p).type = "RightCurly" THEN [p |-> p, v |-> en]
    ELSE enumLoop(consumeUntilSemiOrLinebreak(parserErrorf(p, "unexpected")), en)

\* parseEnum: [p, v].
parseEnum(p) ==
    Only({Only({[p |-> expect(r.p, "RightCurly").p, v |-> r.v] :
                r \in {enumLoop(h.p, [name |-> h.name, comment |-> commentsAsStrings(p),
                                      annotations |-> p.annotations, members |-> <<>>])}}) :
          h \in {declarationHead(p, "enum_name")}})

\* The loop of parseService: [p, v], v the service so far.
serviceLoop(p, svc) ==
    IF parserEof(p) THEN [p |-> p, v |-> svc]
    ELSE IF parserPeek(p).type = "Identifier"
    THEN IF parserPeek(p).value \in {"struct", "enum", "service"}
         THEN serviceLoop(parseDeclaration(
                              parserErrorf(p, IF parserPeek(p).value = "struct"
                                              THEN "struct in service"
                                              ELSE IF parserPeek(p).value = "enum"
                                              THEN "enum in service"
                                              ELSE "service in service")).p,
                          svc)
         ELSE IF parserPeek(p).value \in reservedNames
         THEN serviceLoop(consumeUntilSemiOrLinebreak(parserErrorf(p, "reserved")), svc)
         ELSE Only({serviceLoop(r.p, [svc EXCEPT !.methods = Append(@, r.v)]) :
                    r \in {parseServiceMethod(p)}})
    ELSE IF parserPeek(p).type = "AtSign" THEN serviceLoop(parseAnnotations(p), svc)
    ELSE IF parserPeek(p).type = "Comment" THEN serviceLoop(parseComments(p), svc)
    ELSE IF parserPeek(p).type = "RightCurly" THEN [p |-> p, v |-> svc]
    ELSE serviceLoop(consumeUntilSemiOrLinebreak(parserErrorf(p, "unexpected")), svc)

\* parseService: [p, v].
parseService(p) ==
    Only({Only({[p |-> expect(r.p, "RightCurly").p, v |-> r.v] :
                r \in {serviceLoop(h.p, [name |-> h.name, comment |-> commentsAsStrings(p),
                                         annotations |-> p.annotations,
                                         methods |-> <<>>])}}) :
          h \in {declarationHead(p, "service_name")}})

\* The declaration the keyword at p opens: p.parseStruct(), p.parseEnum() or
\* p.parseService(), as every switch over the keyword calls them.
parseDeclaration(p) ==
    IF parserPeek(p).value = "struct" THEN parseStruct(p)
    ELSE IF parserPeek(p).value = "enum" THEN parseEnum(p)
    ELSE parseService(p)

\* parseRootItem
parseRootItem(p) ==
    IF parserPeek(p).value \in {"struct", "enum", "service"}
    THEN Only({IF Crashed(r.p) THEN r.p
               ELSE IF parserPeek(p).value = "struct"
               THEN [r.p EXCEPT !.file.structs = Append(@, r.v)]
               ELSE IF parserPeek(p).value = "enum"
               THEN [r.p EXCEPT !.file.enums = Append(@, r.v)]
               ELSE [r.p EXCEPT !.file.services = MergeServices(@, <<r.v>>)] :
               r \in {parseDeclaration(p)}})
    ELSE IF parserPeek(p).value = "import"
    THEN Only({IF Crashed(r.p) THEN r.p
               ELSE [r.p EXCEPT !.file.imports = Append(@, r.v)] :
               r \in {parseImport(p)}})
    ELSE consumeUntilSemiOrLinebreak(parserErrorf(p, "unexpected"))

\* The loop of parser.parse.
RECURSIVE rootLoop(_)
rootLoop(p) ==
    IF parserEof(p) THEN p
    ELSE IF parserPeek(p).type = "Comment" THEN rootLoop(parseComments(p))
    ELSE IF parserPeek(p).type = "AtSign" THEN rootLoop(parseAnnotations(p))
    ELSE IF parserPeek(p).type = "Identifier" THEN rootLoop(parseRootItem(p))
    ELSE rootLoop(consumeUntilSemiOrLinebreak(parserErrorf(p, "unexpected")))

\* parser.parse
parserParse(p) == rootLoop(parsePackage(discardComments(p)))

Id(v) == [type |-> "Identifier", value |-> v]
Sy(t) == [type |-> t, value |-> ""]
Str(v) == [type |-> "String", value |-> v]
Num(v) == [type |-> "Number", value |-> v]
Cm(v) == [type |-> "Comment", value |-> v]

RECURSIVE Numbered(_, _)
Numbered(lines, first) ==
    IF lines = <<>> THEN <<>>
    ELSE [i \in 1..Len(Head(lines)) |->
              Tok(Head(lines)[i].type, Head(lines)[i].value, first)]
         \o Numbered(Tail(lines), first + 1)

(***************************************************************************)
(* The text of a file.  An input of the front end is given as the          *)
(* declarations its text holds; the tokens parse receives are those of the *)
(* text laid out one declaration, field, member or method a line, fields   *)
(* before nested structs before enums, structs before enums before         *)
(* services, and ending in a line break.                                   *)
(***************************************************************************)
numberText(n) == Digits[n + 1]

RECURSIVE typeTokens(_)
typeTokens(t) ==
    IF t.k \in {"prim", "simple"} THEN <<Id(t.name[1])>>
    ELSE IF t.k = "fq"
    THEN <<Id(t.name[1])>>
         \o Flatten([i \in 1..(Len(t.name) - 1) |-> <<Sy("Period"), Id(t.name[i + 1])>>])
    ELSE IF t.k = "map"
    THEN <<Id("map"), Sy("LeftAngled")>> \o typeTokens(t.sub[1]) \o <<Sy("Comma")>>
         \o typeTokens(t.sub[2]) \o <<Sy("RightAngled")>>
    ELSE <<Id(IF t.k = "opt" THEN "optional" ELSE "array"), Sy("LeftAngled")>>
         \o typeTokens(t.sub[1]) \o <<Sy("RightAngled")>>

\* The entries of a parameter or return list, with commas between them.
commaSeparated(entries) ==
    Flatten([i \in 1..Len(entries) |->
                (IF i = 1 THEN <<>> ELSE <<Sy("Comma")>>) \o entries[i]])

paramTokens(pr) ==
    <<Id(IF pr.stream THEN "stream" ELSE pr.name[1])>> \o typeTokens(pr.type)

returnTokens(rt) ==
    (IF rt.stream THEN <<Id("stream")>> ELSE <<>>) \o typeTokens(rt.type)

methodLine(m) ==
    <<Id(m.name), Sy("LeftParen")>>
    \o commaSeparated([i \in 1..Len(m.params) |-> paramTokens(m.params[i])])
    \o <<Sy("RightParen")>>
    \o (IF m.returns = <<>> THEN <<>>
        ELSE IF Len(m.returns) = 1 THEN <<Sy("Arrow")>> \o returnTokens(m.returns[1])
        ELSE <<Sy("Arrow"), Sy("LeftParen")>>
             \o commaSeparated([i \in 1..Len(m.returns) |-> returnTokens(m.returns[i])])
             \o <<Sy("RightParen")>>)
    \o <<Sy("Semi")>>

serviceLines(s) ==
    <<<<Id("service"), Id(s.name), Sy("LeftCurly")>>>>
    \o [i \in 1..Len(s.methods) |-> methodLine(s.methods[i])]
    \o <<<<Sy("RightCurly")>>>>

enumLines(e) ==
    <<<<Id("enum"), Id(e.name), Sy("LeftCurly")>>>>
    \o [i \in 1..Len(e.members) |->
            <<Id(e.members[i].name), Sy("Equal"), Num(numberText(e.members[i].value)),
              Sy("Semi")>>]
    \o <<<<Sy("RightCurly")>>>>

RECURSIVE structLines(_)
structLines(s) ==
    <<<<Id("struct"), Id(s.name), Sy("LeftCurly")>>>>
    \o [i \in 1..Len(s.fields) |->
            <<Id(s.fields[i].name)>> \o typeTokens(s.fields[i].type) \o <<Sy("Semi")>>]
    \o Flatten([i \in 1..Len(s.structs) |-> structLines(s.structs[i])])
    \o Flatten([i \in 1..Len(s.enums) |-> enumLines(s.enums[i])])
    \o <<<<Sy("RightCurly")>>>>

importLine(imp) ==
    <<Id("import"), Str(imp.value)>>
    \o (IF imp.alias = "" THEN <<>> ELSE <<Id("as"), Id(imp.alias)>>)
    \o <<Sy("Semi")>>

\* A text the parser rejects ("syntaxerror") ends in a stray '}'.
sourceLines(src) ==
    (IF src.pkg = <<>> THEN <<>>
     ELSE <<<<Id("package"), Id(src.pkg[1])>>
            \o Flatten([i \in 1..(Len(src.pkg) - 1) |->
                           <<Sy("Period"), Id(src.pkg[i + 1])>>])
            \o <<Sy("Semi")>>>>)
    \o [i \in 1..Len(src.imports) |-> importLine(src.imports[i])]
    \o Flatten([i \in 1..Len(src.structs) |-> structLines(src.structs[i])])
    \o Flatten([i \in 1..Len(src.enums) |-> enumLines(src.enums[i])])
    \o Flatten([i \in 1..Len(src.services) |-> serviceLines(src.services[i])])
    \o (IF src.text = "syntaxerror" THEN <<<<Sy("RightCurly")>>>> ELSE <<>>)

\* lexFile's tokens for the text: the EOF token is on the line after the
\* last line break.
sourceTokens(src) ==
    Numbered(sourceLines(src), 1) \o <<Tok("EOF", "", Len(sourceLines(src)) + 1)>>

(***************************************************************************)
(* The *ast.File the parser built, as the rest of the front end reads it:  *)
(* comments and annotations play no part after parse.                      *)
(***************************************************************************)
astEnum(e) ==
    MkEnum(e.name, [i \in 1..Len(e.members) |->
                        MkMember(e.members[i].name, e.members[i].value)])

RECURSIVE astStruct(_)
astStruct(s) ==
    MkStruct(s.name,
             [i \in 1..Len(s.fields) |-> MkField(s.fields[i].name, s.fields[i].type)],
             [i \in 1..Len(s.structs) |-> astStruct(s.structs[i])],
             [i \in 1..Len(s.enums) |-> astEnum(s.enums[i])])

astService(s) ==
    MkService(s.name,
              [i \in 1..Len(s.methods) |->
                  MkMethod(s.methods[i].name, s.methods[i].params,
                           s.methods[i].returns)])

astFile(f, text) ==
    MkFile(text, f.package,
           [i \in 1..Len(f.imports) |-> MkImport(f.imports[i].value, f.imports[i].alias)],
           [i \in 1..Len(f.structs) |-> astStruct(f.structs[i])],
           [i \in 1..Len(f.enums) |-> astEnum(f.enums[i])],
           [i \in 1..Len(f.services) |-> astService(f.services[i])])

\* parse(filepath, tokens, onError) on the tokens of the file's text: whether
\* p.parse() panics, p.errors and p.file after it.
parseOutcome(src) ==
    Only({[panics |-> Crashed(p), errs |-> p.errors, file |-> astFile(p.file, src.text)] :
          p \in {parserParse(newParser(sourceTokens(src)))}})

\* parser.parse: the error list of one file.
parseErrors(src) == parseOutcome(src).errs

\* parser.parse panics.
parsePanics(src) == parseOutcome(src).panics

\* parser.parse: the file built when there is no error.
parseFile(src) == parseOutcome(src).file

\* lexFile: the error list of the file's text.
lexFile(src) == ErrIf(src.text = "lexerror", "lex")

(***************************************************************************)
(* validatePhase1.  The validator's state while it walks the entry file is *)
(* [objects, errs]: the FQNs registered in v.objects and v.errors.         *)
(***************************************************************************)
\* The indices of the entries whose name an earlier entry carries: the
\* "if ex, ok := fields[f.Name]; ok" hits of a posSet loop.
Repeated(s) == {i \in 1..Len(s) : \E j \in 1..(i - 1) : s[j].name = s[i].name}

\* Fault injection: a validateStruct that never looks at the fields.
detectDuplicatedFieldsSkipped(s) == <<>>

\* detectDuplicatedFields
detectDuplicatedFields(s) ==
    [i \in 1..Cardinality(Repeated(s.fields)) |-> "duplicate_field"]

\* Fault injection: a detectDuplicatedEnumValues keyed by the member's value.
detectDuplicatedEnumValuesByValue(e) ==
    [i \in 1..Cardinality({i \in 1..Len(e.members) :
                              \E j \in 1..(i - 1) : e.members[j].value = e.members[i].value})
        |-> "duplicate_member"]

\* detectDuplicatedEnumValues: keyed by the member's name, never its value.
detectDuplicatedEnumValues(e) ==
    [i \in 1..Cardinality(Repeated(e.members)) |-> "duplicate_member"]

\* validateMethodParams: the content of inputNames when parameter i is
\* looked at.  The set is made empty by makeSet and the loop only calls has.
inputNames(params, i) == {}

\* validateMethodParams
validateMethodParams(m) ==
    Flatten([i \in 1..Len(m.params) |->
        (IF m.params[i].name # <<>>
         THEN ErrIf(m.params[i].name[1] \in inputNames(m.params, i), "duplicate_param")
              \o ErrIf(~snakeCaseRegex(m.params[i].name[1]), "param_name")
         ELSE <<>>)
        \o ErrIf(m.params[i].stream
                 /\ \E j \in 1..(i - 1) : m.params[j].stream, "second_stream_param")])
    \o Flatten([i \in 1..Len(m.returns) |->
        ErrIf(m.returns[i].stream
              /\ \E j \in 1..(i - 1) : m.returns[j].stream, "second_stream_return")])

\* validateEnum
validateEnumP1(f, ip, st) ==
    LET fqn == EnumFQN(f, ip)
        e == EnumAt(f, ip)
    IN IF fqn \in st.objects
       THEN [st EXCEPT !.errs = Append(@, "name_clash")]
       ELSE IF e.members = <<>>
       THEN [objects |-> st.objects \cup {fqn}, errs |-> Append(st.errs, "empty_enum")]
       ELSE [objects |-> st.objects \cup {fqn},
             errs |-> st.errs \o detectDuplicatedEnumValues(e)]

RECURSIVE validateEnumsP1(_, _, _, _)
validateEnumsP1(f, ip, i, st) ==
    IF i > Len(EnumsOf(f, ip)) THEN st
    ELSE validateEnumsP1(f, ip, i + 1, validateEnumP1(f, ip \o <<i>>, st))

\* validateStruct: a clash returns before the fields and the nested
\* declarations are looked at.
RECURSIVE validateStructP1(_, _, _)
RECURSIVE validateStructsP1(_, _, _, _)
validateStructP1(f, ip, st) ==
    LET fqn == StructFQN(f, ip)
    IN IF fqn \in st.objects
       THEN [st EXCEPT !.errs = Append(@, "name_clash")]
       ELSE validateEnumsP1(f, ip, 1,
                validateStructsP1(f, ip, 1,
                    [objects |-> st.objects \cup {fqn},
                     errs |-> st.errs \o detectDuplicatedFields(StructAt(f, ip))]))

validateStructsP1(f, ip, i, st) ==
    IF i > Len(StructsOf(f, ip)) THEN st
    ELSE validateStructsP1(f, ip, i + 1, validateStructP1(f, ip \o <<i>>, st))

\* detectDuplicatedService
detectDuplicatedService(f, s, st) ==
    LET fqn == ServiceFQN(f, s)
    IN IF fqn \in st.objects
       THEN [st EXCEPT !.errs = Append(@, "name_clash")]
       ELSE [objects |-> st.objects \cup {fqn},
             errs |-> st.errs \o Flatten(SeqMap(validateMethodParams, s.methods))]

RECURSIVE detectDuplicatedServices(_, _, _)
detectDuplicatedServices(f, i, st) ==
    IF i > Len(f.services) THEN st
    ELSE detectDuplicatedServices(f, i + 1,
             detectDuplicatedService(f, f.services[i], st))

\* defineImportAlias: an import without alias takes the last component of
\* the imported file's package.  Needs the import's file in files.
defineImportAlias(fs, imp) ==
    IF imp.alias # "" THEN imp
    ELSE [imp EXCEPT !.alias = Last(fs[imp.resolved].pkg)]

HasAlias(f, a) == \E i \in 1..Len(f.importAliases) : f.importAliases[i].alias = a
AliasTarget(f, a) ==
    f.importAliases[CHOOSE i \in 1..Len(f.importAliases) :
                        f.importAliases[i].alias = a].path

\* processImports: st is [f, errs].
RECURSIVE processImports(_, _, _)
processImports(fs, i, st) ==
    IF i > Len(st.f.imports) THEN st
    ELSE LET imp == defineImportAlias(fs, st.f.imports[i])
             f1 == [st.f EXCEPT !.imports[i] = imp]
         IN processImports(fs, i + 1,
                IF HasAlias(f1, imp.alias)
                THEN [f |-> f1, errs |-> Append(st.errs, "duplicate_alias")]
                ELSE [f |-> [f1 EXCEPT !.importAliases =
                                 Append(@, [alias |-> imp.alias, path |-> imp.resolved])],
                      errs |-> st.errs])

\* "BUG: resolved import not found": defineImportAlias panics.
ImportPanics(fs, f) ==
    \E i \in 1..Len(f.imports) :
        f.imports[i].alias = "" /\ f.imports[i].resolved \notin DOMAIN fs

\* validatePhase1(files, entrypoint): [f, errs], f the entry file with its
\* import aliases registered.
validatePhase1(fs, entry) ==
    LET imp == processImports(fs, 1, [f |-> fs[entry], errs |-> <<>>])
        f == imp.f
    IN IF imp.errs # <<>> THEN imp
       ELSE [f |-> f,
             errs |-> detectDuplicatedServices(f, 1,
                          validateEnumsP1(f, <<>>, 1,
                              validateStructsP1(f, <<>>, 1,
                                  [objects |-> {}, errs |-> <<>>]))).errs]

(***************************************************************************)
(* validatePhase2: type resolution.                                        *)
(*                                                                         *)
(* findPackage ranges over the Go map v.files, whose iteration order is    *)
(* not fixed: when several files declare one package any of them may be    *)
(* returned, and each call may return another.  A "pick" is one outcome of *)
(* the iteration: a function from the declared package values to a file   *)
(* declaring it.  Every lookupFQN call gets a pick of its own; the picks   *)
(* of a run are a sequence, two per type reference (lookupType calls       *)
(* lookupFQN at most twice), in the order the references are met.          *)
(***************************************************************************)
PackagesOf(fs) == {fs[p].pkg : p \in DOMAIN fs}

Picks(fs) ==
    {pk \in [PackagesOf(fs) -> DOMAIN fs] : \A v \in PackagesOf(fs) : fs[pk[v]].pkg = v}

NoObj == [panic |-> FALSE, obj |-> <<>>]

\* The loop shared by lookupFQN and findScopedType: walk name through
\* nested structs; the last component names an enum or a struct.
RECURSIVE Descend(_, _, _, _)
Descend(fs, path, ip, name) ==
    IF Len(name) = 1
    THEN LET e == FindEnum(fs, path, ip, name[1])
         IN IF e # <<>> THEN e ELSE FindStruct(fs, path, ip, name[1])
    ELSE LET next == FindStruct(fs, path, ip, name[1])
         IN IF next = <<>> THEN <<>>
            ELSE Descend(fs, path, next[1].ip, Tail(name))

\* findScopedType
findScopedType(fs, path, ip, components) == Descend(fs, path, ip, components)

\* findPackage under a pick
findPackage(pk, name) == IF name \in DOMAIN pk THEN <<pk[name]>> ELSE <<>>

\* lookupFQN: the shortest prefix of components that is the package of a
\* file (or of the entry file) selects the target; the rest is walked.  When
\* nothing is left to walk, name[0] is read from an empty slice: a panic.
lookupFQN(fs, entry, components, pk) ==
    LET hits == {i \in 1..Len(components) :
                    \/ findPackage(pk, SubSeq(components, 1, i)) # <<>>
                    \/ fs[entry].pkg = SubSeq(components, 1, i)}
    IN IF hits = {} THEN NoObj
       ELSE LET i == CHOOSE h \in hits : \A g \in hits : h <= g
                fp == findPackage(pk, SubSeq(components, 1, i))
                target == IF fp # <<>> THEN fp[1] ELSE entry
                name == SubSeq(components, i + 1, Len(components))
            IN IF name = <<>> THEN [panic |-> TRUE, obj |-> <<>>]
               ELSE [panic |-> FALSE, obj |-> Descend(fs, target, <<>>, name)]

\* lookupType, after the lower-case branch: components is what that branch
\* left in the variable.
lookupTypeRest(fs, entry, ip, components, pk) ==
    LET e == FindEnum(fs, entry, <<>>, components[1])
        s == FindStruct(fs, entry, <<>>, components[1])
        scoped == findScopedType(fs, entry, ip, components)
    IN IF Len(components) = 1 /\ e # <<>> THEN [panic |-> FALSE, obj |-> e]
       ELSE IF Len(components) = 1 /\ s # <<>> THEN [panic |-> FALSE, obj |-> s]
       ELSE IF scoped # <<>> THEN [panic |-> FALSE, obj |-> scoped]
       ELSE lookupFQN(fs, entry, fs[entry].pkg \o components, pk)

\* lookupType(parent, name): parent is the container at ip of the entry file.
lookupType(fs, entry, ip, name, pk1, pk2) ==
    LET f == fs[entry]
        lower == IsLowerInitial(name[1])
        components ==
            IF lower /\ HasAlias(f, name[1])
            THEN fs[AliasTarget(f, name[1])].pkg \o Tail(name)
            ELSE IF lower /\ name[1] = f.pkg[1] THEN f.pkg \o Tail(name)
            ELSE name
        Continue(first) ==
            IF first.panic \/ first.obj # <<>> THEN first
            ELSE lookupTypeRest(fs, entry, ip, components, pk2)
    IN Continue(IF lower THEN lookupFQN(fs, entry, components, pk1) ELSE NoObj)

\* preResolveType: SetResolved and SetFQN on success, one error otherwise.
preResolveType(fs, entry, ip, t, pk1, pk2) ==
    LET Store(r) ==
            IF r.panic THEN [t |-> t, errs |-> <<>>, panic |-> TRUE]
            ELSE IF r.obj = <<>>
            THEN [t |-> t, errs |-> <<"undefined_type">>, panic |-> FALSE]
            ELSE [t |-> [t EXCEPT !.res = r.obj, !.fqn = ObjFQN(fs, r.obj[1])],
                  errs |-> <<>>, panic |-> FALSE]
    IN Store(lookupType(fs, entry, ip, t.name, pk1, pk2))

\* validateMapKey
validateMapKey(m) == ErrIf(m.sub[1].k \in {"opt", "arr", "map"}, "map_key")

\* resolveType(parent, t).  base is the number of references met before t.
RECURSIVE resolveType(_, _, _, _, _, _)
resolveType(fs, entry, ip, t, base, picks) ==
    IF t.k \in {"opt", "arr"}
    THEN LET Wrap(r) == [r EXCEPT !.t = [t EXCEPT !.sub = <<r.t>>]]
         IN Wrap(resolveType(fs, entry, ip, t.sub[1], base, picks))
    ELSE IF t.k = "map"
    THEN LET Both(rk, rv) ==
                 [t |-> [t EXCEPT !.sub = <<rk.t, rv.t>>],
                  errs |-> rk.errs \o rv.errs \o validateMapKey(t),
                  panic |-> rk.panic \/ rv.panic]
         IN Both(resolveType(fs, entry, ip, t.sub[1], base, picks),
                 resolveType(fs, entry, ip, t.sub[2],
                             base + Len(Refs(t.sub[1])), picks))
    ELSE IF IsResolvable(t)
    THEN preResolveType(fs, entry, ip, t, picks[2 * base + 1], picks[2 * base + 2])
    ELSE [t |-> t, errs |-> <<>>, panic |-> FALSE]

RECURSIVE SumSeq(_)
SumSeq(s) == IF s = <<>> THEN 0 ELSE Head(s) + SumSeq(Tail(s))

\* The number of references validateStruct meets in a struct.
RECURSIVE StructRefs(_)
StructRefs(s) ==
    SumSeq([i \in 1..Len(s.structs) |-> StructRefs(s.structs[i])])
    + SumSeq([i \in 1..Len(s.fields) |-> Len(Refs(s.fields[i].type))])

\* validatorP2.validateStruct: the nested structs first, then the fields.
RECURSIVE validateStructP2(_, _, _, _, _)
validateStructP2(fs, entry, ip, base, picks) ==
    LET s == StructAt(fs[entry], ip)
        fbase == base + SumSeq([j \in 1..Len(s.structs) |-> StructRefs(s.structs[j])])
        Collect(nested, fields) ==
            [s |-> [s EXCEPT !.structs = [i \in 1..Len(s.structs) |-> nested[i].s],
                             !.fields = [i \in 1..Len(s.fields) |->
                                            [s.fields[i] EXCEPT !.type = fields[i].t]]],
             errs |-> Flatten([i \in 1..Len(nested) |-> nested[i].errs])
                      \o Flatten([i \in 1..Len(fields) |-> fields[i].errs]),
             panic |-> (\E i \in 1..Len(nested) : nested[i].panic)
                       \/ (\E i \in 1..Len(fields) : fields[i].panic)]
    IN Collect(
           [i \in 1..Len(s.structs) |->
               validateStructP2(fs, entry, ip \o <<i>>,
                   base + SumSeq([j \in 1..(i - 1) |-> StructRefs(s.structs[j])]),
                   picks)],
           [i \in 1..Len(s.fields) |->
               resolveType(fs, entry, ip, s.fields[i].type,
                   fbase + SumSeq([j \in 1..(i - 1) |-> Len(Refs(s.fields[j].type))]),
                   picks)])

\* validateMethodParam: a resolvable type is resolved against the file;
\* every other type is an error.  Nothing checks what it resolved to.
validateMethodParam(fs, entry, t, base, picks) ==
    IF IsResolvable(t) THEN resolveType(fs, entry, <<>>, t, base, picks)
    ELSE [t |-> t, errs |-> <<"method_type">>, panic |-> FALSE]

ParamRefs(t) == IF IsResolvable(t) THEN 1 ELSE 0

\* The parameters and then the returns of a method, as one list of types.
MethodTypes(m) ==
    [i \in 1..Len(m.params) |-> m.params[i].type]
    \o [i \in 1..Len(m.returns) |-> m.returns[i].type]

MethodRefs(m) == SumSeq(SeqMap(ParamRefs, MethodTypes(m)))

\* validateMethod
validateMethod(fs, entry, m, base, picks) ==
    LET ts == MethodTypes(m)
        np == Len(m.params)
        Collect(rs) ==
            [m |-> [m EXCEPT !.params = [i \in 1..np |->
                                            [m.params[i] EXCEPT !.type = rs[i].t]],
                             !.returns = [i \in 1..Len(m.returns) |->
                                             [m.returns[i] EXCEPT !.type = rs[np + i].t]]],
             errs |-> Flatten([i \in 1..Len(rs) |-> rs[i].errs]),
             panic |-> \E i \in 1..Len(rs) : rs[i].panic]
    IN Collect([i \in 1..Len(ts) |->
                   validateMethodParam(fs, entry, ts[i],
                       base + SumSeq([j \in 1..(i - 1) |-> ParamRefs(ts[j])]), picks)])

ServiceRefs(s) == SumSeq(SeqMap(MethodRefs, s.methods))

\* validateService
validateService(fs, entry, s, base, picks) ==
    LET Collect(rs) ==
            [s |-> [s EXCEPT !.methods = [i \in 1..Len(rs) |-> rs[i].m]],
             errs |-> Flatten([i \in 1..Len(rs) |-> rs[i].errs]),
             panic |-> \E i \in 1..Len(rs) : rs[i].panic]
    IN Collect([i \in 1..Len(s.methods) |->
                   validateMethod(fs, entry, s.methods[i],
                       base + SumSeq([j \in 1..(i - 1) |-> MethodRefs(s.methods[j])]),
                       picks)])

\* The number of references a validatePhase2 run over the file meets.
FileRefs(f) ==
    SumSeq(SeqMap(StructRefs, f.structs)) + SumSeq(SeqMap(ServiceRefs, f.services))

\* validatePhase2(files, entrypoint): [f, errs, panic], f the entry file
\* with the resolution results stored in its types.
validatePhase2(fs, entry, picks) ==
    LET f == fs[entry]
        sbase == SumSeq(SeqMap(StructRefs, f.structs))
        Collect(ss, vs) ==
            [f |-> [f EXCEPT !.structs = [i \in 1..Len(ss) |-> ss[i].s],
                             !.services = [i \in 1..Len(vs) |-> vs[i].s]],
             errs |-> Flatten([i \in 1..Len(ss) |-> ss[i].errs])
                      \o Flatten([i \in 1..Len(vs) |-> vs[i].errs]),
             panic |-> (\E i \in 1..Len(ss) : ss[i].panic)
                       \/ (\E i \in 1..Len(vs) : vs[i].panic)]
    IN Collect(
           [i \in 1..Len(f.structs) |->
               validateStructP2(fs, entry, <<i>>,
                   SumSeq([j \in 1..(i - 1) |-> StructRefs(f.structs[j])]), picks)],
           [i \in 1..Len(f.services) |->
               validateService(fs, entry, f.services[i],
                   sbase + SumSeq([j \in 1..(i - 1) |-> ServiceRefs(f.services[j])]),
                   picks)])

(***************************************************************************)
(* validatePhase3: divergent re-declarations of a method in a service.     *)
(***************************************************************************)
\* Type.Eql: wrappers compare structurally, primitives by name, the two
\* user-type forms by their FullQualifiedName strings.
RECURSIVE TypeEql(_, _)
TypeEql(a, b) ==
    IF a.k \in {"arr", "opt"} THEN b.k = a.k /\ TypeEql(a.sub[1], b.sub[1])
    ELSE IF a.k = "map"
    THEN b.k = "map" /\ TypeEql(a.sub[1], b.sub[1]) /\ TypeEql(a.sub[2], b.sub[2])
    ELSE IF a.k = "prim" THEN b.k = "prim" /\ a.name = b.name
    ELSE IsResolvable(b) /\ a.fqn = b.fqn

\* MethodParam.Eql
MethodParamEql(p, other) ==
    /\ ~((p.name = <<>> /\ other.name # <<>>) \/ (p.name # <<>> /\ other.name = <<>>))
    /\ ~(p.name # <<>> /\ other.name # <<>> /\ p.name[1] # other.name[1])
    /\ p.stream = other.stream
    /\ TypeEql(p.type, other.type)

\* MethodReturn.Eql
MethodReturnEql(r, other) == TypeEql(r.type, other.type) /\ r.stream = other.stream

\* areMethodsDivergent
areMethodsDivergent(m, ex) ==
    \/ Len(m.params) # Len(ex.params)
    \/ Len(m.returns) # Len(ex.returns)
    \/ \E i \in 1..Len(m.params) : ~MethodParamEql(m.params[i], ex.params[i])
    \/ \E i \in 1..Len(m.returns) : ~MethodReturnEql(m.returns[i], ex.returns[i])

\* detectDuplicatedMethods: every later method of a name is compared with
\* the first method of that name (the one stored in the methods map).
detectDuplicatedMethods(s) ==
    Flatten([i \in 1..Len(s.methods) |->
        LET first == FirstNamed(s.methods, s.methods[i].name)
        IN ErrIf(first < i /\ areMethodsDivergent(s.methods[i], s.methods[first]),
                 "method_clash")])

\* validatePhase3(files, entrypoint)
validatePhase3(fs, entry) == Flatten(SeqMap(detectDuplicatedMethods, fs[entry].services))

(***************************************************************************)
(* ast.Tree.  Run adds the files in the iteration order of the map         *)
(* f.files; order is one such order, a sequence of the paths.              *)
(***************************************************************************)
Orders(S) == {o \in [1..Cardinality(S) -> S] : \A p \in S : \E i \in DOMAIN o : o[i] = p}

\* Tree.AddFile
AddFile(tree, path, file) ==
    LET old == IF file.pkg \in DOMAIN tree THEN tree[file.pkg]
               ELSE [package |-> file.pkg, files |-> <<>>, structures |-> <<>>,
                     enums |-> <<>>, services |-> <<>>, imports |-> <<>>]
        new == [package |-> old.package,
                files |-> Append(old.files, path),
                structures |-> old.structures \o file.structs,
                enums |-> old.enums \o file.enums,
                services |-> old.services \o file.services,
                imports |-> old.imports \o file.imports]
    IN [v \in DOMAIN tree \cup {file.pkg} |-> IF v = file.pkg THEN new ELSE tree[v]]

\* Run, lines 68-71: the loop over f.files
RECURSIVE BuildTree(_, _, _)
BuildTree(fs, order, tree) ==
    IF order = <<>> THEN tree
    ELSE BuildTree(fs, Tail(order), AddFile(tree, Head(order), fs[Head(order)]))

(***************************************************************************)
(* The explored inputs: what is on disk when Run is called.  Every file    *)
(* sits in the directory "/", the entry point is /a.arf.                   *)
(***************************************************************************)
entrypoint == "/a.arf"

structS == MkStruct("S", <<>>, <<>>, <<>>)
enumE == MkEnum("E", <<MkMember("A", 0)>>)

\* Types of exactly n nodes over the given leaves.
RECURSIVE TypesOfSize(_, _)
TypesOfSize(leaves, n) ==
    IF n = 1 THEN leaves
    ELSE {Opt(t) : t \in TypesOfSize(leaves, n - 1)}
         \cup {Arr(t) : t \in TypesOfSize(leaves, n - 1)}
         \cup UNION {{MapT(key, val) : key \in TypesOfSize(leaves, i),
                                       val \in TypesOfSize(leaves, n - 1 - i)} :
                     i \in 1..(n - 2)}

FieldLeaves ==
    {Prim("string"), Prim("bytes"), Simple("S"), Simple("E"), Simple("Missing"),
     Simple("p")}

FieldTypes == UNION {TypesOfSize(FieldLeaves, n) : n \in 1..MaxTypeSize}

\* package p; enum E { A = 0; } struct S {} struct T { f <ty>; }
FieldFile(ty) ==
    MkFile("ok", <<"p">>, <<>>,
           <<structS, MkStruct("T", <<MkField("f", ty)>>, <<>>, <<>>)>>,
           <<enumE>>, <<>>)

\* package p; struct S { <fs> } struct T { <ft> } struct V {}
RefFields == {<<>>, <<MkField("f", Simple("S"))>>, <<MkField("f", Simple("T"))>>,
              <<MkField("f", Simple("V"))>>}

RefFile(fs, ft) ==
    MkFile("ok", <<"p">>, <<>>,
           <<MkStruct("S", fs, <<>>, <<>>), MkStruct("T", ft, <<>>, <<>>),
             MkStruct("V", <<>>, <<>>, <<>>)>>,
           <<>>, <<>>)

\* package p; enum E { A = 0; } struct S {} struct T {} <services>
ServiceFile(services) ==
    MkFile("ok", <<"p">>, <<>>,
           <<structS, MkStruct("T", <<>>, <<>>, <<>>)>>, <<enumE>>, services)

ParamTypes ==
    {Simple("S"), Simple("E"), Simple("Missing"), Simple("p"), FQ(<<"p", "S">>),
     Prim("string"), Opt(Simple("S")), Arr(Simple("S")),
     MapT(Prim("string"), Simple("S"))}

\* service X { M(i <ty>) [-> (<rty>)]; }
TypedMethods ==
    {MkMethod("M", <<MkParam(<<"i">>, FALSE, ty)>>, rets) :
        ty \in ParamTypes,
        rets \in {<<>>} \cup {<<MkReturn(FALSE, rty)>> : rty \in ParamTypes}}

\* service X { M(<params>) -> (<returns>); }: every placement of the stream
\* keyword over lists of up to MaxParams entries.
ParamNames == <<"x", "y", "i", "g">>
StreamFlags == UNION {[1..n -> BOOLEAN] : n \in 0..MaxParams}

StreamParams(fl) ==
    [i \in 1..Len(fl) |->
        MkParam(IF fl[i] THEN <<>> ELSE <<ParamNames[i]>>, fl[i], Simple("S"))]
StreamReturns(fl) == [i \in 1..Len(fl) |-> MkReturn(fl[i], Simple("S"))]

StreamMethods ==
    {MkMethod("M", StreamParams(pf), StreamReturns(rf)) :
        pf \in StreamFlags, rf \in StreamFlags}

\* Reopened services: up to MaxBlocks blocks "service X { <method>; }".
Signatures ==
    {MkMethod("M", <<MkParam(<<"i">>, FALSE, Simple("S"))>>, <<>>),
     MkMethod("M", <<MkParam(<<"i">>, FALSE, FQ(<<"p", "S">>))>>, <<>>),
     MkMethod("M", <<MkParam(<<"x">>, FALSE, Simple("S"))>>, <<>>),
     MkMethod("M", <<MkParam(<<"i">>, FALSE, Simple("T"))>>, <<>>),
     MkMethod("M", <<MkParam(<<>>, TRUE, Simple("S"))>>, <<>>),
     MkMethod("M", <<MkParam(<<"i">>, FALSE, Simple("S"))>>,
                   <<MkReturn(FALSE, Simple("S"))>>),
     MkMethod("M", <<MkParam(<<"i">>, FALSE, Simple("S"))>>,
                   <<MkReturn(TRUE, Simple("S"))>>),
     MkMethod("M", <<MkParam(<<"i">>, FALSE, Simple("S")),
                     MkParam(<<"x">>, FALSE, Simple("S"))>>, <<>>),
     MkMethod("M", <<>>, <<>>),
     MkMethod("N", <<MkParam(<<"i">>, FALSE, Simple("S"))>>, <<>>)}

Blocks == UNION {[1..n -> Signatures] : n \in 1..MaxBlocks}

ReopenFile(ms) == ServiceFile([i \in 1..Len(ms) |-> MkService("X", <<ms[i]>>)])

\* Imports.  The entry file: package p; import "<val>" [as <alias>];
\* struct S {} struct T { f <ty>; } [service X {M(i <t1>);} service X {M(i <t2>);}]
ImportLeaves ==
    {Simple("S"), Simple("V"), FQ(<<"p", "V">>), FQ(<<"q", "A">>),
     FQ(<<"q", "Missing">>), FQ(<<"bb", "A">>)}

NestedRefs == {FQ(<<"q", "A", "B", "C">>), FQ(<<"q", "B", "A", "C">>)}

ImportingFile(imp, ty, services) ==
    MkFile("ok", <<"p">>, <<imp>>,
           <<structS, MkStruct("T", <<MkField("f", ty)>>, <<>>, <<>>)>>,
           <<>>, services)

EntryFiles ==
    {ImportingFile(imp, ty, <<>>) :
        imp \in {MkImport("b", ""), MkImport("b.arf", "bb")}, ty \in ImportLeaves}
    \cup {ImportingFile(MkImport("b", ""), Simple("S"),
              <<MkService("X", <<MkMethod("M", <<MkParam(<<"i">>, FALSE, t1)>>, <<>>)>>),
                MkService("X", <<MkMethod("M", <<MkParam(<<"i">>, FALSE, t2)>>, <<>>)>>)>>) :
            t1 \in NestedRefs, t2 \in NestedRefs}

\* package q; struct A { struct B { struct C {} } } struct B { struct A {
\* struct C {} } } struct U { f A; }
nestC == MkStruct("C", <<>>, <<>>, <<>>)
fileQ(imports) ==
    MkFile("ok", <<"q">>, imports,
           <<MkStruct("A", <<>>, <<MkStruct("B", <<>>, <<nestC>>, <<>>)>>, <<>>),
             MkStruct("B", <<>>, <<MkStruct("A", <<>>, <<nestC>>, <<>>)>>, <<>>),
             MkStruct("U", <<MkField("f", Simple("A"))>>, <<>>, <<>>)>>,
           <<>>, <<>>)

\* package p; struct V {}: a second file of the entry file's package
fileP == MkFile("ok", <<"p">>, <<>>, <<MkStruct("V", <<>>, <<>>, <<>>)>>, <<>>, <<>>)

ImportedB ==
    {fileQ(<<>>), fileQ(<<MkImport("c", "")>>), fileQ(<<MkImport("a", "")>>), fileP,
     [fileQ(<<>>) EXCEPT !.text = "lexerror"],
     [fileQ(<<>>) EXCEPT !.text = "syntaxerror"],
     [fileQ(<<>>) EXCEPT !.structs = <<MkStruct("bb", <<>>, <<>>, <<>>)>>],
     [fileP EXCEPT !.structs = <<structS>>],
     [fileQ(<<>>) EXCEPT !.structs = <<nestC, nestC>>]}

ImportedC == {fileP, [fileP EXCEPT !.text = "lexerror"]}

\* package p; struct S {} struct <n> {} enum E { <members> }
ClashFiles ==
    {MkFile("ok", <<"p">>, <<>>, <<structS, MkStruct(n, <<>>, <<>>, <<>>)>>,
            <<MkEnum("E", ms)>>, <<>>) :
        n \in {"S", "T"}, ms \in {<<>>, <<MkMember("A", 0)>>}}

\* Field lists with and without a repeated name.
FieldLists ==
    {<<>>, <<MkField("f", Simple("S"))>>,
     <<MkField("f", Simple("S")), MkField("g", Simple("S"))>>,
     <<MkField("f", Simple("S")), MkField("f", Simple("S"))>>,
     <<MkField("f", Simple("S")), MkField("f", Prim("string"))>>}

\* struct <name> { <fields> struct <name'> { <fields'> ... } }: one struct per
\* level, d levels below the outermost one.
DepthNames == <<"T", "N", "K", "B", "A">>

RECURSIVE NestedStructs(_, _)
NestedStructs(level, d) ==
    IF d = 0 THEN {MkStruct(DepthNames[level], fl, <<>>, <<>>) : fl \in FieldLists}
    ELSE {MkStruct(DepthNames[level], fl, <<inner>>, <<>>) :
             fl \in FieldLists, inner \in NestedStructs(level + 1, d - 1)}

\* package p; struct S {} struct T { ... }
DupFieldFiles ==
    {MkFile("ok", <<"p">>, <<>>, <<structS, t>>, <<>>, <<>>) :
        t \in NestedStructs(1, MaxDepth)}

\* package p; two top-level structs whose nested declarations carry the
\* same names at different places: A.B.C and B.A.C, S.E and E.S, A.B and
\* B.A, and one pair nested alike.
NestingFiles ==
    LET leaf(n) == MkStruct(n, <<>>, <<>>, <<>>)
        in(n, inner) == MkStruct(n, <<>>, <<inner>>, <<>>)
        holder(n, e) == MkStruct(n, <<>>, <<>>, <<MkEnum(e, <<MkMember("A", 0)>>)>>)
    IN {MkFile("ok", <<"p">>, <<>>, ss, <<>>, <<>>) :
           ss \in {<<in("A", in("B", leaf("C"))), in("B", in("A", leaf("C")))>>,
                   <<holder("S", "E"), holder("E", "S")>>,
                   <<in("A", leaf("B")), in("B", leaf("A"))>>,
                   <<in("A", in("B", leaf("C"))), in("K", in("B", leaf("C")))>>,
                   <<in("A", leaf("B")), in("A", leaf("B"))>>}}

\* package p; a field of type B (or E) in a struct, with B declared in the
\* struct itself, in an enclosing struct, at the top level, or at two of
\* these places.
ScopeFiles ==
    LET leaf(n) == MkStruct(n, <<>>, <<>>, <<>>)
        user(n, ty, ss, es) == MkStruct(n, <<MkField("f", Simple(ty))>>, ss, es)
        in(n, ss, es) == MkStruct(n, <<>>, ss, es)
    IN {MkFile("ok", <<"p">>, <<>>, ss, es, <<>>) :
           ss \in {<<leaf("B"), user("A", "B", <<leaf("B")>>, <<>>)>>,
                   <<in("A", <<leaf("B"), user("C", "B", <<>>, <<>>)>>, <<>>)>>,
                   <<user("C", "B", <<leaf("B")>>, <<>>)>>,
                   <<in("A", <<in("C", <<user("K", "B", <<>>, <<>>)>>, <<>>), leaf("B")>>,
                        <<>>)>>,
                   <<leaf("B"), in("A", <<user("C", "B", <<>>, <<>>)>>, <<>>)>>,
                   <<user("A", "E", <<>>, <<enumE>>)>>,
                   <<in("A", <<user("C", "E", <<>>, <<>>)>>, <<enumE>>)>>},
           es \in {<<>>, <<enumE>>}}

\* service X { M(<a> S, <b> S); }
NamedMethods ==
    {MkMethod("M", <<MkParam(<<a>>, FALSE, Simple("S")),
                     MkParam(<<b>>, FALSE, Simple("S"))>>, <<>>) :
        a \in {"x", "y"}, b \in {"x", "y"}}

\* enum E { <members> }, at the top level or inside struct T
MemberLists ==
    UNION {[1..n -> {MkMember(nm, v) : nm \in {"A", "B"}, v \in {0, 1}}] :
              n \in 0..MaxMembers}

EnumFiles ==
    {MkFile("ok", <<"p">>, <<>>, <<structS>>, <<MkEnum("E", ms)>>, <<>>) :
        ms \in MemberLists}
    \cup {MkFile("ok", <<"p">>, <<>>,
                 <<structS, MkStruct("T", <<>>, <<>>, <<MkEnum("E", ms)>>)>>,
                 <<>>, <<>>) :
            ms \in MemberLists}

\* One declared name of the file is a reserved word: the name of a struct, a
\* nested struct, an enum, a service, a method, a field, an enum member or
\* a method parameter.
ReservedSample == {"map", "string", "struct", "as"}

ReservedFiles ==
    UNION {{MkFile("ok", <<"p">>, <<>>, <<structS, MkStruct(r, <<>>, <<>>, <<>>)>>,
                   <<>>, <<>>),
            MkFile("ok", <<"p">>, <<>>,
                   <<structS, MkStruct("T", <<>>, <<MkStruct(r, <<>>, <<>>, <<>>)>>, <<>>)>>,
                   <<>>, <<>>),
            MkFile("ok", <<"p">>, <<>>, <<structS>>, <<MkEnum(r, <<MkMember("A", 0)>>)>>,
                   <<>>),
            MkFile("ok", <<"p">>, <<>>, <<structS>>, <<MkEnum("E", <<MkMember(r, 0)>>)>>,
                   <<>>),
            MkFile("ok", <<"p">>, <<>>,
                   <<structS, MkStruct("T", <<MkField(r, Simple("S"))>>, <<>>, <<>>)>>,
                   <<>>, <<>>),
            ServiceFile(<<MkService(r, <<MkMethod("M", <<>>, <<>>)>>)>>),
            ServiceFile(<<MkService("X", <<MkMethod(r, <<>>, <<>>)>>)>>),
            ServiceFile(<<MkService("X",
                <<MkMethod("M", <<MkParam(<<r>>, FALSE, Simple("S"))>>, <<>>)>>)>>)} :
           r \in ReservedSample}

\* package p; import "b" as <r>; struct S {} struct T { f S; }
ReservedAliasFiles ==
    {ImportingFile(MkImport("b", r), Simple("S"), <<>>) : r \in ReservedSample}

SingleFiles ==
    {FieldFile(ty) : ty \in FieldTypes}
    \cup ReservedFiles
    \cup DupFieldFiles
    \cup NestingFiles
    \cup ScopeFiles
    \cup {ServiceFile(<<MkService("X", <<m>>)>>) : m \in NamedMethods}
    \cup EnumFiles
    \cup {RefFile(fs, ft) : fs \in RefFields, ft \in RefFields}
    \cup {ServiceFile(<<MkService("X", <<m>>)>>) : m \in TypedMethods \cup StreamMethods}
    \cup {ReopenFile(ms) : ms \in Blocks}
    \cup ClashFiles
    \cup {[FieldFile(Simple("S")) EXCEPT !.text = t] : t \in {"lexerror", "syntaxerror"}}

\* Import graphs over four files, each "package <pkg>; import ...; struct
\* <name> {}": chains, diamonds, re-imports, cycles and self-imports.
GraphFile(pkg, name, vals) ==
    MkFile("ok", <<pkg>>, [i \in 1..Len(vals) |-> MkImport(vals[i], "")],
           <<MkStruct(name, <<>>, <<>>, <<>>)>>, <<>>, <<>>)

GraphDisks ==
    {[p \in {"/a.arf", "/b.arf", "/c.arf", "/d.arf"} |->
         IF p = "/a.arf" THEN GraphFile("p", "S", ia)
         ELSE IF p = "/b.arf" THEN GraphFile("q", "T", ib)
         ELSE IF p = "/c.arf" THEN GraphFile("m", "U", ic)
         ELSE GraphFile("x", "V", <<>>)] :
        ia \in {<<"b">>, <<"b", "c">>, <<"c", "b.arf">>, <<"b", "d">>, <<"d", "b">>,
                <<"b", "b">>, <<"a">>},
        ib \in {<<>>, <<"d">>, <<"a">>, <<"b">>},
        ic \in {<<>>, <<"d">>, <<"a.arf">>}}

\* Two files of one package that both declare V:
\* /a.arf = package p; import "b"; struct S {} struct T { f <ty>; } struct V {}
\* /b.arf = package p; struct V {}
SharedPackageDisks ==
    {[p \in {"/a.arf", "/b.arf"} |->
         IF p = "/a.arf"
         THEN [ImportingFile(MkImport("b", ""), ty, <<>>) EXCEPT
                  !.structs = Append(@, MkStruct("V", <<>>, <<>>, <<>>))]
         ELSE fileP] :
        ty \in {FQ(<<"p", "V">>), Simple("V"), Opt(FQ(<<"p", "V">>))}}

\* Files holding several violations at once:
\* /a.arf = package p; import "b"; [import "b";] struct S {}
\*          struct T { <fields> } enum E { <members> } service X { <method>; }
\* /b.arf = package q; ...
ViolationDisks ==
    {[p \in {"/a.arf", "/b.arf"} |->
         IF p = "/a.arf"
         THEN MkFile("ok", <<"p">>, imps, <<structS, MkStruct("T", fl, <<>>, <<>>)>>,
                     <<MkEnum("E", ms)>>, <<MkService("X", <<m>>)>>)
         ELSE fileQ(<<>>)] :
        imps \in {<<MkImport("b", "")>>, <<MkImport("b", ""), MkImport("b", "")>>},
        fl \in {<<MkField("f", Simple("S"))>>,
                <<MkField("f", Simple("S")), MkField("f", Simple("S"))>>},
        ms \in {<<>>, <<MkMember("A", 0)>>, <<MkMember("A", 0), MkMember("A", 1)>>},
        m \in {MkMethod("M", <<MkParam(<<"i">>, FALSE, Simple("S"))>>, <<>>),
               MkMethod("M", <<MkParam(<<"Bad">>, FALSE, Simple("S"))>>, <<>>)}}

\* References spelled with a full package name:
\* /a.arf = package <pkg>; [import "b" as bb;] struct S { struct B {} }
\*          struct T { f <ty>; }, <ty> spelled with a package or with bb
\* /b.arf = package <other>; struct A { struct B {} }
QualifiedDisks ==
    LET holder(n) == MkStruct(n, <<>>, <<MkStruct("B", <<>>, <<>>, <<>>)>>, <<>>)
        a(pkg, imps, ty) ==
            MkFile("ok", pkg, imps,
                   <<holder("S"), MkStruct("T", <<MkField("f", ty)>>, <<>>, <<>>)>>,
                   <<>>, <<>>)
        b(pkg) == MkFile("ok", pkg, <<>>, <<holder("A")>>, <<>>, <<>>)
    IN {[p \in {"/a.arf"} |-> a(pkg, <<>>, FQ(pkg \o rest))] :
           pkg \in {<<"p">>, <<"p", "q">>}, rest \in {<<"S">>, <<"S", "B">>}}
       \cup {[p \in {"/a.arf", "/b.arf"} |->
                 IF p = "/a.arf" THEN a(pkg, <<MkImport("b", "bb")>>, FQ(lead \o rest))
                 ELSE b(other)] :
               pkg \in {<<"p">>, <<"p", "q">>}, other \in {<<"x">>, <<"p", "x">>},
               lead \in {<<"x">>, <<"p", "x">>, <<"bb">>},
               rest \in {<<"A">>, <<"A", "B">>}}

Disks ==
    {[p \in {"/a.arf"} |-> a] : a \in SingleFiles}
    \cup GraphDisks
    \cup ViolationDisks
    \cup QualifiedDisks
    \cup SharedPackageDisks
    \cup {[p \in {"/a.arf"} |-> a] : a \in EntryFiles}
    \cup {[p \in {"/a.arf", "/b.arf"} |-> IF p = "/a.arf" THEN a ELSE b] :
            a \in EntryFiles, b \in ImportedB}
    \cup {[p \in {"/a.arf", "/b.arf"} |-> IF p = "/a.arf" THEN a ELSE b] :
            a \in ReservedAliasFiles, b \in {fileQ(<<>>)}}
    \cup {[p \in {"/a.arf", "/b.arf", "/c.arf"} |->
              IF p = "/a.arf" THEN a ELSE IF p = "/b.arf" THEN b ELSE c] :
            a \in EntryFiles, b \in {fileQ(<<MkImport("c", "")>>)}, c \in ImportedC}

(***************************************************************************)
(* frontend.Run as a state machine.  frontend.parse is recursive: stack    *)
(* holds its frames [path, file, i], i the index of the import the frame   *)
(* is at; callee is the path of a call that has been made and not yet      *)
(* entered.  The Go runtime ends the program when the stack of a goroutine *)
(* exceeds its limit: MaxStack frames here.                                *)
(***************************************************************************)
Stages == <<"parse", "validatePhase1", "validatePhase2", "validatePhase3">>

NoErrs == [s \in Range(Stages) |-> <<>>]

\* strings.HasSuffix(strings.ToLower(val), ".arf"), over the import values
\* of the inputs
HasArfSuffix(val) == val \in {"a.arf", "b.arf", "c.arf", "d.arf"}

\* filepath.Abs(filepath.Join(filepath.Dir(path), val)), every file being
\* in "/"
cleanPath(val) == "/" \o (IF HasArfSuffix(val) THEN val ELSE val \o ".arf")

\* Fault injection: a Run that goes on whatever a stage returned.
StageFailedIgnored(errs) == FALSE

\* Run, "if err != nil { return nil, err }"
StageFailed(errs) == errs # <<>>

\* f.files[path] = astFile
PutFile(fs, path, file) ==
    [p \in DOMAIN fs \cup {path} |-> IF p = path THEN file ELSE fs[p]]

\* No lexFile call, no validate call and no parse call is under way.
NoLexer == [pc |-> "idle"]
NoValidator == [pc |-> "idle"]
NoParser == [pc |-> "idle"]

\* No second validatePhase2 has run.
NotAgain == [ran |-> FALSE, before |-> <<>>, errs |-> <<>>, panic |-> FALSE]

Init ==
    /\ disk \in Disks
    /\ pc = "parse"
    /\ callee = <<entrypoint>>
    /\ stack = <<>>
    /\ processedPaths = {}
    /\ files = <<>>
    /\ calls = <<"parse">>
    /\ stageErrs = NoErrs
    /\ ret = [returned |-> FALSE, tree |-> <<>>, err |-> <<>>]
    /\ opened = <<>>
    /\ again = NotAgain
    /\ lx = NoLexer
    /\ vd = NoValidator
    /\ pa = NoParser

\* Run, "return nil, err"
ReturnError(errs) ==
    /\ pc' = "done"
    /\ ret' = [returned |-> TRUE, tree |-> <<>>, err |-> errs]

\* Run after stage st returned errs: leave with the error, or go on to the
\* next stage.
AfterStage(st, errs, next) ==
    /\ stageErrs' = [stageErrs EXCEPT ![st] = errs]
    /\ IF StageFailed(errs) THEN ReturnError(errs)
       ELSE pc' = next /\ UNCHANGED ret

\* frontend.parse(path), lines 77-89: read, lex and parse the file.  An
\* error returns through every caller up to Run.
parseOpen ==
    /\ pc = "parse"
    /\ callee # <<>>
    /\ \E r \in {IF callee[1] \notin DOMAIN disk
                 THEN [panics |-> FALSE, errs |-> <<"read">>, file |-> <<>>]
                 ELSE IF lexFile(disk[callee[1]]) # <<>>
                 THEN [panics |-> FALSE, errs |-> lexFile(disk[callee[1]]), file |-> <<>>]
                 ELSE parseOutcome(disk[callee[1]])} :
          IF Len(stack) >= MaxStack
          THEN /\ pc' = "overflow"
               /\ UNCHANGED <<stack, stageErrs, ret, opened>>
          ELSE /\ opened' = Append(opened, callee[1])
               /\ IF r.panics
                  THEN /\ pc' = "panic"
                       /\ UNCHANGED <<stack, stageErrs, ret>>
                  ELSE IF r.errs # <<>>
                  THEN /\ stageErrs' = [stageErrs EXCEPT !["parse"] = r.errs]
                       /\ ReturnError(r.errs)
                       /\ stack' = <<>>
                  ELSE /\ stack' = Append(stack, [path |-> callee[1], file |-> r.file,
                                                  i |-> 1])
                       /\ UNCHANGED <<pc, stageErrs, ret>>
    /\ callee' = <<>>
    /\ UNCHANGED <<disk, processedPaths, files, calls, again, lx, vd, pa>>

\* Fault injection: a loop that parses every import, processed or not.
ShouldParseAlways(clean, processed) == TRUE

\* frontend.parse, line 102: "if _, ok := f.processedPaths[clean]; !ok"
ShouldParse(clean, processed) == clean \notin processed

\* frontend.parse, lines 91-107: one round of the loop over the imports.
parseImportStep ==
    /\ pc = "parse"
    /\ callee = <<>>
    /\ stack # <<>>
    /\ LET top == Last(stack)
           n == Len(stack)
       IN /\ top.i <= Len(top.file.imports)
          /\ LET clean == cleanPath(top.file.imports[top.i].value)
             IN IF ShouldParse(clean, processedPaths)
                THEN /\ callee' = <<clean>>
                     /\ UNCHANGED stack
                ELSE /\ stack' = [stack EXCEPT ![n].file.imports[top.i].resolved = clean,
                                               ![n].i = top.i + 1]
                     /\ UNCHANGED callee
    /\ UNCHANGED <<disk, pc, processedPaths, files, calls, stageErrs, ret, opened, again, lx, vd, pa>>

\* frontend.parse, lines 109-113: the file is stored and the call returns:
\* to the caller's loop, which records the resolved path of the import, or
\* to Run.
parseReturn ==
    /\ pc = "parse"
    /\ callee = <<>>
    /\ stack # <<>>
    /\ LET top == Last(stack)
           n == Len(stack)
           rest == SubSeq(stack, 1, n - 1)
       IN /\ top.i > Len(top.file.imports)
          /\ files' = PutFile(files, top.path, top.file)
          /\ processedPaths' = processedPaths \cup {top.path}
          /\ IF n = 1
             THEN /\ stack' = <<>>
                  /\ pc' = "validatePhase1"
             ELSE /\ stack' = [rest EXCEPT
                                  ![n - 1].file.imports[rest[n - 1].i].resolved = top.path,
                                  ![n - 1].i = rest[n - 1].i + 1]
                  /\ UNCHANGED pc
    /\ UNCHANGED <<disk, callee, calls, stageErrs, ret, opened, again, lx, vd, pa>>

\* Run, lines 58-60
RunPhase1 ==
    /\ pc = "validatePhase1"
    /\ calls' = Append(calls, "validatePhase1")
    /\ IF ImportPanics(files, files[entrypoint])
       THEN /\ pc' = "panic"
            /\ UNCHANGED <<files, stageErrs, ret>>
       ELSE LET Outcome(r) ==
                    /\ files' = [files EXCEPT ![entrypoint] = r.f]
                    /\ AfterStage("validatePhase1", r.errs, "validatePhase2")
            IN Outcome(validatePhase1(files, entrypoint))
    /\ UNCHANGED <<disk, callee, stack, processedPaths, opened, again, lx, vd, pa>>

\* Run, lines 61-63
RunPhase2 ==
    /\ pc = "validatePhase2"
    /\ calls' = Append(calls, "validatePhase2")
    /\ \E picks \in [1..(2 * FileRefs(files[entrypoint])) -> Picks(files)] :
          LET Outcome(r) ==
                  IF r.panic
                  THEN /\ pc' = "panic"
                       /\ UNCHANGED <<files, stageErrs, ret>>
                  ELSE /\ files' = [files EXCEPT ![entrypoint] = r.f]
                       /\ AfterStage("validatePhase2", r.errs, "validatePhase3")
          IN Outcome(validatePhase2(files, entrypoint, picks))
    /\ UNCHANGED <<disk, callee, stack, processedPaths, opened, again, lx, vd, pa>>

\* Run, lines 64-73: the last phase, and on success the tree.
RunPhase3 ==
    /\ pc = "validatePhase3"
    /\ calls' = Append(calls, "validatePhase3")
    /\ LET Outcome(errs) ==
               /\ stageErrs' = [stageErrs EXCEPT !["validatePhase3"] = errs]
               /\ IF StageFailed(errs)
                  THEN ReturnError(errs)
                  ELSE \E order \in Orders(DOMAIN files) :
                          /\ pc' = "done"
                          /\ ret' = [returned |-> TRUE,
                                     tree |-> <<BuildTree(files, order, <<>>)>>,
                                     err |-> <<>>]
       IN Outcome(validatePhase3(files, entrypoint))
    /\ UNCHANGED <<disk, callee, stack, processedPaths, files, opened, again, lx, vd, pa>>

Next ==
    \/ parseOpen
    \/ parseImportStep
    \/ parseReturn
    \/ RunPhase1
    \/ RunPhase2
    \/ RunPhase3

Spec == Init /\ [][Next]_vars

\* validatePhase2 called once more on the file set a first call has
\* resolved without error, before anything else touches it.
RunPhase2Again ==
    /\ pc = "validatePhase3"
    /\ ~again.ran
    /\ \E picks \in [1..(2 * FileRefs(files[entrypoint])) -> Picks(files)] :
          LET Outcome(r) ==
                  /\ again' = [ran |-> TRUE, before |-> <<files[entrypoint]>>,
                               errs |-> r.errs, panic |-> r.panic]
                  /\ files' = [files EXCEPT ![entrypoint] = r.f]
          IN Outcome(validatePhase2(files, entrypoint, picks))
    /\ UNCHANGED <<disk, pc, callee, stack, processedPaths, calls, stageErrs, ret,
                   opened, lx, vd, pa>>

NextAgain == Next \/ RunPhase2Again

SpecAgain == Init /\ [][NextAgain]_vars

(***************************************************************************)
(* The tree-based front-end (validator.go over ast/elements.go): validate  *)
(* runs three passes over the parsed file set and returns the first error. *)
(***************************************************************************)

\* ast.Annotation: a name and the number of its arguments.
Annot(name, nargs) == [name |-> name, args |-> nargs]

\* ast.PrimitiveType, and the wrappers Type.Optional() and Type.Repeated()
\* make of a primitive or user type.
PrimitiveType == [k |-> "primitive"]
StreamingType(t) == [k |-> "streaming", of |-> t]
OptionalType(t) == [k |-> "optional", of |-> t]
RepeatedType(t) == [k |-> "repeated", of |-> t]

\* ast.Field holding a PlainField (Union is nil).
PlainField(name, index, anns) ==
    [plain |-> <<[name |-> name, type |-> PrimitiveType, index |-> index]>>,
     union |-> <<>>, ann |-> anns]

\* ast.Field holding a UnionField (Plain is nil); members are Fields.
UnionField(members, anns) ==
    [plain |-> <<>>, union |-> <<[fields |-> members]>>, ann |-> anns]

\* ast.Struct, ast.Enum, ast.EnumOption, ast.Service, ast.Method,
\* ast.MethodParam and ast.Tree with its file path.
TreeStruct(name, fields, structs, enums, anns) ==
    [name |-> name, fields |-> fields, structs |-> structs, enums |-> enums, ann |-> anns]
TreeEnum(name, options, anns) == [name |-> name, options |-> options, ann |-> anns]
EnumOption(name, anns) == [name |-> name, ann |-> anns]
TreeService(name, methods, anns) == [name |-> name, methods |-> methods, ann |-> anns]
Method(name, input, output, anns) ==
    [name |-> name, input |-> input, output |-> output, ann |-> anns]
MethodParam(named, type) == [named |-> named, type |-> type]
Tree(path, structures, enums, services) ==
    [path |-> path, structures |-> structures, enums |-> enums, services |-> services]

\* What a pass returns: nil, an error, or a panic raised while the error
\* message was being built.
NoError == [err |-> <<>>, panic |-> FALSE]
Errorf(kind) == [err |-> <<kind>>, panic |-> FALSE]

\* pathOf switches on pointer types only; Struct, Enum, Service, EnumOption
\* and Method declare Path() on the value and hand pathOf a value, which
\* falls to "default: panic".
pathOfValue == [err |-> <<>>, panic |-> TRUE]

Failed(r) == r.err # <<>> \/ r.panic

\* "if err := ...; err != nil { return err }" over a loop: the first
\* failure ends the loop.
RECURSIVE FirstFailure(_)
FirstFailure(rs) ==
    IF rs = <<>> THEN NoError
    ELSE IF Failed(Head(rs)) THEN Head(rs)
    ELSE FirstFailure(Tail(rs))

\* Annotations.ByName: the first annotation of that name, or none.
ByName(anns, name) ==
    LET at == {i \in 1..Len(anns) : anns[i].name = name}
    IN IF at = {} THEN <<>>
       ELSE <<anns[CHOOSE i \in at : \A j \in at : i <= j]>>

\* "a.Name == "repeated" || a.Name == "optional"" for some annotation.
TypeAnnotated(anns) ==
    \E i \in 1..Len(anns) : anns[i].name \in {"repeated", "optional"}

processEnumOptionAnnotation(o) ==
    IF TypeAnnotated(o.ann) THEN pathOfValue ELSE NoError

processEnumAnnotations(e) ==
    IF TypeAnnotated(e.ann) THEN pathOfValue
    ELSE FirstFailure([i \in 1..Len(e.options) |->
                          processEnumOptionAnnotation(e.options[i])])

processServiceMethodAnnotations(m) ==
    IF TypeAnnotated(m.ann) THEN pathOfValue ELSE NoError

processServiceAnnotations(s) ==
    IF TypeAnnotated(s.ann) THEN pathOfValue
    ELSE FirstFailure([i \in 1..Len(s.methods) |->
                          processServiceMethodAnnotations(s.methods[i])])

processUnionFieldAnnotations(f) ==
    IF ByName(f.ann, "optional") # <<>> THEN Errorf("union field optional")
    ELSE IF ByName(f.ann, "repeated") # <<>> THEN Errorf("union field repeated")
    ELSE NoError

processStructureFieldAnnotations(f) ==
    LET optional == ByName(f.ann, "optional")
        repeated == ByName(f.ann, "repeated")
    IN IF optional # <<>> /\ f.union # <<>> THEN Errorf("union optional")
       ELSE IF repeated # <<>> /\ f.union # <<>> THEN Errorf("union repeated")
       ELSE IF repeated # <<>> /\ optional # <<>> THEN Errorf("both")
       ELSE IF optional # <<>> /\ optional[1].args # 0 THEN Errorf("optional parameters")
       ELSE IF repeated # <<>> /\ repeated[1].args # 0 THEN Errorf("repeated parameters")
       ELSE IF f.union # <<>>
            THEN FirstFailure([i \in 1..Len(f.union[1].fields) |->
                                  processUnionFieldAnnotations(f.union[1].fields[i])])
       ELSE NoError

\* processStructureFieldAnnotations, "f.Plain.Type = f.Plain.Type.Optional()"
\* and "... .Repeated()": what a passing field's type becomes.
annotatedField(f) ==
    IF f.union # <<>> THEN f
    ELSE IF ByName(f.ann, "optional") # <<>>
         THEN [f EXCEPT !.plain[1].type = OptionalType(@)]
    ELSE IF ByName(f.ann, "repeated") # <<>>
         THEN [f EXCEPT !.plain[1].type = RepeatedType(@)]
    ELSE f

\* The walks below yield [r, v]: what the walk returned and the nodes after
\* it.  The fields are rewritten in place, so a walk that fails leaves the
\* rewrites it made before the failure.

\* processStructureAnnotations, "for _, f := range s.Fields".
RECURSIVE fieldsWalk(_, _)
fieldsWalk(fields, i) ==
    IF i > Len(fields) THEN [r |-> NoError, v |-> fields]
    ELSE Only({IF Failed(r) THEN [r |-> r, v |-> fields]
               ELSE fieldsWalk([fields EXCEPT ![i] = annotatedField(@)], i + 1) :
               r \in {processStructureFieldAnnotations(fields[i])}})

RECURSIVE structureWalk(_)

\* "for _, s := range s.Structs" and "for _, st := range tree.Structures".
RECURSIVE structsWalk(_, _)
structsWalk(structs, i) ==
    IF i > Len(structs) THEN [r |-> NoError, v |-> structs]
    ELSE Only({IF Failed(w.r) THEN [r |-> w.r, v |-> [structs EXCEPT ![i] = w.v]]
               ELSE structsWalk([structs EXCEPT ![i] = w.v], i + 1) :
               w \in {structureWalk(structs[i])}})

\* processStructureAnnotations: the struct's annotations, its enums, its
\* nested structs, then its fields.
structureWalk(s) ==
    IF TypeAnnotated(s.ann) THEN [r |-> pathOfValue, v |-> s]
    ELSE Only({IF Failed(e) THEN [r |-> e, v |-> s]
               ELSE Only({IF Failed(n.r) THEN [r |-> n.r, v |-> [s EXCEPT !.structs = n.v]]
                          ELSE Only({[r |-> f.r,
                                      v |-> [s EXCEPT !.structs = n.v, !.fields = f.v]] :
                                     f \in {fieldsWalk(s.fields, 1)}}) :
                          n \in {structsWalk(s.structs, 1)}}) :
               e \in {FirstFailure([i \in 1..Len(s.enums) |->
                                       processEnumAnnotations(s.enums[i])])}})

processStructureAnnotations(s) == structureWalk(s).r

\* The struct after processStructureAnnotations.
annotatedStruct(s) == structureWalk(s).v

\* processTreeAnnotations, "for _, s := range v.p.set" from file n on: the
\* file's enums, its services, then its structures.
RECURSIVE treeWalk(_, _)
treeWalk(set, n) ==
    IF n > Len(set) THEN [r |-> NoError, v |-> set]
    ELSE Only({IF Failed(e) THEN [r |-> e, v |-> set]
               ELSE Only({IF Failed(w.r)
                          THEN [r |-> w.r, v |-> [set EXCEPT ![n].structures = w.v]]
                          ELSE treeWalk([set EXCEPT ![n].structures = w.v], n + 1) :
                          w \in {structsWalk(set[n].structures, 1)}}) :
               e \in {FirstFailure(
                        [i \in 1..Len(set[n].enums) |->
                            processEnumAnnotations(set[n].enums[i])]
                        \o [i \in 1..Len(set[n].services) |->
                               processServiceAnnotations(set[n].services[i])])}})

processTreeAnnotations(set) == treeWalk(set, 1).r

\* The file set after processTreeAnnotations, whatever it returned.
annotatedSet(set) == treeWalk(set, 1).v

IsStreaming(t) == t.k = "streaming"

\* The two stream loops of processMethodDefinition over a list of types:
\* a second stream, or anything after a stream, is an error.
StreamMisplaced(types) ==
    \E i \in 1..Len(types) : \E j \in 1..(i - 1) : IsStreaming(types[j])

\* Every error of processMethodDefinition formats m.Path().
processMethodDefinition(m) ==
    LET isNamed == \E i \in 1..Len(m.input) : m.input[i].named
    IN IF \E i \in 1..Len(m.input) : ~m.input[i].named /\ isNamed THEN pathOfValue
       ELSE IF StreamMisplaced([i \in 1..Len(m.input) |-> m.input[i].type]) THEN pathOfValue
       ELSE IF StreamMisplaced(m.output) THEN pathOfValue
       ELSE NoError

processMethodDefinitions(set) ==
    FirstFailure(Flatten(Flatten(
        [n \in 1..Len(set) |->
            [i \in 1..Len(set[n].services) |->
                [j \in 1..Len(set[n].services[i].methods) |->
                    processMethodDefinition(set[n].services[i].methods[j])]]])))

\* The loop shape shared by the clash checks: the first element whose key
\* was seen before.
FirstRepeat(keys) ==
    LET at == {i \in 1..Len(keys) : \E j \in 1..(i - 1) : keys[j] = keys[i]}
    IN IF at = {} THEN 0 ELSE CHOOSE i \in at : \A j \in at : i <= j

processEnumClashes(e) ==
    IF FirstRepeat([i \in 1..Len(e.options) |-> e.options[i].name]) # 0
    THEN Errorf("duplicated option") ELSE NoError

processServiceClashes(serv) ==
    IF FirstRepeat([i \in 1..Len(serv.methods) |-> serv.methods[i].name]) # 0
    THEN Errorf("duplicated option") ELSE NoError

\* The plain fields processStructureClashes visits, in its order: each
\* field of str.Fields, a union replaced by its member fields.
visitedFields(str) ==
    Flatten([i \in 1..Len(str.fields) |->
                IF str.fields[i].plain # <<>> THEN <<str.fields[i].plain[1]>>
                ELSE [j \in 1..Len(str.fields[i].union[1].fields) |->
                         str.fields[i].union[1].fields[j].plain[1]]])

\* processStructureClashes looks at the names of str.Structs and str.Enums
\* and at str.Fields; it does not call itself on str.Structs.
processStructureClashes(str) ==
    LET nested == [i \in 1..Len(str.structs) |-> str.structs[i].name]
                  \o [i \in 1..Len(str.enums) |-> str.enums[i].name]
        fs == visitedFields(str)
        byName == FirstRepeat([i \in 1..Len(fs) |-> fs[i].name])
        byIndex == FirstRepeat([i \in 1..Len(fs) |-> fs[i].index])
    IN IF FirstRepeat(nested) # 0 THEN Errorf("duplicated nested object")
       ELSE IF byName # 0 /\ (byIndex = 0 \/ byName <= byIndex)
            THEN Errorf("duplicated field")
       ELSE IF byIndex # 0 THEN Errorf("duplicated index")
       ELSE NoError

\* The top-level declarations in the order processClashes walks them.
rootWalk(set) ==
    Flatten([n \in 1..Len(set) |->
        [i \in 1..Len(set[n].enums) |->
            [name |-> set[n].enums[i].name, r |-> processEnumClashes(set[n].enums[i])]]
        \o [i \in 1..Len(set[n].services) |->
            [name |-> set[n].services[i].name,
             r |-> processServiceClashes(set[n].services[i])]]
        \o [i \in 1..Len(set[n].structures) |->
            [name |-> set[n].structures[i].name,
             r |-> processStructureClashes(set[n].structures[i])]]])

\* processClashes: v.rootObjects is keyed by the bare name across files.
processClashes(set) ==
    LET walk == rootWalk(set)
    IN FirstFailure([i \in 1..Len(walk) |->
          IF \E j \in 1..(i - 1) : walk[j].name = walk[i].name
          THEN Errorf("name already defined")
          ELSE walk[i].r])

(***************************************************************************)
(* The file sets handed to validate.                                       *)
(***************************************************************************)
optionalAnn == Annot("optional", 0)
repeatedAnn == Annot("repeated", 0)

TreeFieldLists ==
    {<<>>,
     <<PlainField("f", 1, <<>>)>>,
     <<PlainField("f", 1, <<>>), PlainField("g", 2, <<>>)>>,
     <<PlainField("f", 1, <<>>), PlainField("g", 1, <<>>)>>,
     <<PlainField("f", 1, <<>>), PlainField("f", 2, <<>>)>>,
     <<PlainField("f", 1, <<>>), UnionField(<<PlainField("g", 1, <<>>)>>, <<>>)>>,
     <<PlainField("f", 1, <<>>), UnionField(<<PlainField("g", 2, <<>>)>>, <<>>)>>,
     <<UnionField(<<PlainField("f", 1, <<>>), PlainField("g", 1, <<>>)>>, <<>>)>>,
     <<PlainField("f", 1, <<optionalAnn>>)>>,
     <<PlainField("f", 1, <<repeatedAnn>>), PlainField("g", 2, <<>>)>>,
     <<PlainField("f", 1, <<optionalAnn, repeatedAnn>>)>>,
     <<PlainField("f", 1, <<Annot("optional", 1)>>)>>,
     <<PlainField("f", 1, <<Annot("repeated", 1)>>)>>,
     <<UnionField(<<PlainField("g", 1, <<optionalAnn>>)>>, <<>>)>>,
     <<UnionField(<<PlainField("g", 1, <<repeatedAnn>>)>>, <<>>)>>,
     <<UnionField(<<PlainField("g", 1, <<>>)>>, <<optionalAnn>>)>>,
     <<UnionField(<<PlainField("g", 1, <<>>)>>, <<repeatedAnn>>)>>}

\* struct S { <fields>  struct N { <fields> } } in one file.
NestedFieldSets ==
    {<<Tree("/a.arf",
            <<TreeStruct("S", fl, <<TreeStruct("N", nl, <<>>, <<>>, <<>>)>>, <<>>, <<>>)>>,
            <<>>, <<>>)>> : fl \in TreeFieldLists, nl \in TreeFieldLists}

EnumCases ==
    {TreeEnum("E", <<EnumOption("A", <<>>)>>, <<>>),
     TreeEnum("E", <<EnumOption("A", <<>>), EnumOption("A", <<>>)>>, <<>>),
     TreeEnum("E", <<EnumOption("A", <<optionalAnn>>)>>, <<>>),
     TreeEnum("E", <<EnumOption("A", <<>>)>>, <<repeatedAnn>>),
     TreeEnum("S", <<EnumOption("A", <<>>)>>, <<>>)}

TreeParamLists ==
    {<<>>} \cup
    {<<MethodParam(n1, t1)>> : n1 \in BOOLEAN,
                               t1 \in {PrimitiveType, StreamingType(PrimitiveType)}} \cup
    {<<MethodParam(n1, t1), MethodParam(n2, t2)>> :
        n1 \in BOOLEAN, n2 \in BOOLEAN,
        t1 \in {PrimitiveType, StreamingType(PrimitiveType)},
        t2 \in {PrimitiveType, StreamingType(PrimitiveType)}}

TreeOutputs ==
    {<<>>, <<PrimitiveType>>, <<StreamingType(PrimitiveType)>>,
     <<PrimitiveType, StreamingType(PrimitiveType)>>,
     <<StreamingType(PrimitiveType), PrimitiveType>>}

ServiceCases ==
    {TreeService("V", <<Method("M", in, out, <<>>)>>, <<>>) :
        in \in TreeParamLists, out \in TreeOutputs} \cup
    {TreeService("V", <<Method("M", <<>>, <<>>, <<>>), Method("M", <<>>, <<>>, <<>>)>>, <<>>),
     TreeService("V", <<Method("M", <<>>, <<>>, <<optionalAnn>>)>>, <<>>),
     TreeService("V", <<Method("M", <<>>, <<>>, <<>>)>>, <<optionalAnn>>),
     TreeService("S", <<Method("M", <<>>, <<>>, <<>>)>>, <<>>)}

plainS == TreeStruct("S", <<PlainField("f", 1, <<>>)>>, <<>>, <<>>, <<>>)

\* Two files: struct S in the first, an enum, a service or a struct in the
\* second, some of them named S as well.
TwoFileSets ==
    {<<Tree("/a.arf", <<plainS>>, <<>>, <<>>), Tree("/b.arf", <<>>, <<e>>, <<>>)>> :
        e \in EnumCases} \cup
    {<<Tree("/a.arf", <<plainS>>, <<>>, <<>>), Tree("/b.arf", <<>>, <<>>, <<sv>>)>> :
        sv \in ServiceCases} \cup
    {<<Tree("/a.arf", <<plainS>>, <<>>, <<>>), Tree("/b.arf", <<st>>, <<>>, <<>>)>> :
        st \in {plainS,
                TreeStruct("T", <<>>, <<>>, <<>>, <<optionalAnn>>),
                TreeStruct("T", <<>>, <<TreeStruct("N", <<>>, <<>>, <<>>, <<>>),
                                        TreeStruct("N", <<>>, <<>>, <<>>, <<>>)>>, <<>>, <<>>),
                TreeStruct("T", <<>>, <<TreeStruct("N", <<>>, <<>>, <<>>, <<>>)>>,
                           <<TreeEnum("N", <<EnumOption("A", <<>>)>>, <<>>)>>, <<>>)}}

TreeSets == NestedFieldSets \cup TwoFileSets

(***************************************************************************)
(* validate as a state machine: one step per pass, ended by the first      *)
(* pass that fails.                                                        *)
(***************************************************************************)
Idle ==
    /\ disk = <<>>
    /\ pc = "idle"
    /\ callee = <<>>
    /\ stack = <<>>
    /\ processedPaths = {}
    /\ files = <<>>
    /\ calls = <<>>
    /\ stageErrs = NoErrs
    /\ ret = [returned |-> FALSE, tree |-> <<>>, err |-> <<>>]
    /\ opened = <<>>
    /\ again = NotAgain

InitValidate ==
    /\ Idle
    /\ lx = NoLexer
    /\ pa = NoParser
    /\ \E set \in TreeSets :
          vd = [pc |-> "processTreeAnnotations", set |-> set, err |-> <<>>]

\* One pass of validate: r is what the pass returned.
passEnds(r, next, set) ==
    IF r.panic THEN vd' = [vd EXCEPT !.pc = "panic", !.set = set]
    ELSE IF r.err # <<>> THEN vd' = [vd EXCEPT !.pc = "done", !.err = r.err, !.set = set]
    ELSE vd' = [vd EXCEPT !.pc = next, !.set = set]

runTreeAnnotations ==
    /\ vd.pc = "processTreeAnnotations"
    /\ passEnds(processTreeAnnotations(vd.set), "processMethodDefinitions",
                annotatedSet(vd.set))
    /\ UNCHANGED <<disk, pc, callee, stack, processedPaths, files, calls, stageErrs,
                   ret, opened, again, lx, pa>>

runMethodDefinitions ==
    /\ vd.pc = "processMethodDefinitions"
    /\ passEnds(processMethodDefinitions(vd.set), "processClashes", vd.set)
    /\ UNCHANGED <<disk, pc, callee, stack, processedPaths, files, calls, stageErrs,
                   ret, opened, again, lx, pa>>

runClashes ==
    /\ vd.pc = "processClashes"
    /\ passEnds(processClashes(vd.set), "done", vd.set)
    /\ UNCHANGED <<disk, pc, callee, stack, processedPaths, files, calls, stageErrs,
                   ret, opened, again, lx, pa>>

NextValidate ==
    \/ runTreeAnnotations
    \/ runMethodDefinitions
    \/ runClashes

SpecValidate == InitValidate /\ [][NextValidate]_vars

(***************************************************************************)
(* The lexer (lexFile and the lexer methods).  data is the rune sequence   *)
(* of the file, one-character strings here; pos counts from 0 as in the    *)
(* code, so the rune at pos is data[pos + 1].                              *)
(***************************************************************************)
MaxInput == 3

LowerHex == {"a", "b", "c", "d", "e", "f"}
UpperHex == {"A", "B", "C", "D", "E", "F"}
LowerRunes ==
    LowerHex \cup {"g", "h", "i", "j", "k", "l", "m", "n", "o", "p", "q", "r", "s",
                   "t", "u", "v", "w", "x", "y", "z"}
UpperRunes ==
    UpperHex \cup {"G", "H", "I", "J", "K", "L", "M", "N", "O", "P", "Q", "R", "S",
                   "T", "U", "V", "W", "X", "Y", "Z"}
DigitRunes == {"0", "1", "2", "3", "4", "5", "6", "7", "8", "9"}

isAscii(r) == r \in LowerRunes \/ r \in UpperRunes \/ r = "_"
isDigit(r) == r \in DigitRunes
isHex(r) == r \in DigitRunes \/ r \in LowerHex \/ r \in UpperHex
isAlpha(r) == isAscii(r) \/ isDigit(r)

simpleTokens ==
    [r \in {"=", ";", "(", ")", "{", "}", "<", ">", ",", "@", "."} |->
        CASE r = "=" -> "Equal"
          [] r = ";" -> "Semi"
          [] r = "(" -> "LeftParen"
          [] r = ")" -> "RightParen"
          [] r = "{" -> "LeftCurly"
          [] r = "}" -> "RightCurly"
          [] r = "<" -> "LeftAngled"
          [] r = ">" -> "RightAngled"
          [] r = "," -> "Comma"
          [] r = "@" -> "AtSign"
          [] r = "." -> "Period"]

\* lexFile, "s := &lexer{...}": the lexer before scan.
newLexer(data) ==
    [pc |-> "scan", data |-> data, pos |-> 0, startPos |-> 0, startLine |-> 0,
     startCol |-> 0, line |-> 1, column |-> 1, tokens |-> <<>>, errors |-> <<>>]

eof(s) == s.pos >= Len(s.data)

\* s.data[s.pos] is an index out of range when pos has reached the end:
\* the runtime panics.
pastEnd(s) == s.pos >= Len(s.data)
Panics(s) == [s EXCEPT !.pc = "panic"]

\* peek where s.pos is in range.
peek(s) == s.data[s.pos + 1]

peek1(s) == IF s.pos + 1 >= Len(s.data) THEN "NUL" ELSE s.data[s.pos + 2]

mark(s) == [s EXCEPT !.startPos = s.pos, !.startLine = s.line, !.startCol = s.column]

marked(s) == SubSeq(s.data, s.startPos + 1, s.pos)

\* advance where s.pos is in range.
advance(s) ==
    IF s.data[s.pos + 1] = "\n"
    THEN [s EXCEPT !.pos = @ + 1, !.line = @ + 1, !.column = 1]
    ELSE [s EXCEPT !.pos = @ + 1, !.column = @ + 1]

errorf(s, msg) ==
    [s EXCEPT !.errors = Append(@, [msg |-> msg, line |-> s.startLine, col |-> s.startCol])]

pushToken(s, t) ==
    [s EXCEPT !.tokens = Append(@, [type |-> t, value |-> marked(s), pos |-> s.startPos,
                                    line |-> s.startLine, column |-> s.startCol])]

pushSimple(s, t) == pushToken(advance(mark(s)), t)

\* "for is...(s.peek()) { s.advance() }": peek is called before every test,
\* also when the previous advance consumed the last rune.
RECURSIVE advanceWhile(_, _)
advanceWhile(s, class) ==
    IF pastEnd(s) THEN Panics(s)
    ELSE IF peek(s) \in class THEN advanceWhile(advance(s), class)
    ELSE s

Runes == LowerRunes \cup UpperRunes \cup DigitRunes \cup {"_"}

\* What follows the loop of parseNumber, parseHex and parseIdentifier.
thenPush(s, t) == IF s.pc = "panic" THEN s ELSE pushToken(s, t)

parseNumber(s) ==
    thenPush(advanceWhile(mark(s), {r \in Runes : isDigit(r)}), "Number")

parseHex(s) ==
    thenPush(advanceWhile(advance(advance(mark(s))), {r \in Runes : isHex(r)}), "Hex")

parseIdentifier(s) ==
    thenPush(advanceWhile(mark(s), {r \in Runes : isAlpha(r)}), "Identifier")

\* scan, case '#': "for !s.eof() && s.peek() != '\n' { s.advance() }".
RECURSIVE commentBody(_)
commentBody(s) ==
    IF ~eof(s) /\ peek(s) # "\n" THEN commentBody(advance(s)) ELSE s

\* The loop of parseString: s the lexer, q the quote, data the runes
\* collected, escaping the flag.
RECURSIVE stringLoop(_, _, _, _)
stringLoop(s, q, data, escaping) ==
    IF eof(s) THEN [s |-> s, data |-> data]
    ELSE LET p == peek(s)
         IN IF escaping
            THEN IF p = q THEN stringLoop(advance(s), q, Append(data, p), FALSE)
                 ELSE stringLoop(advance(s), q, data \o <<"\\", p>>, FALSE)
            ELSE IF p = "\\" THEN stringLoop(advance(s), q, data, TRUE)
            ELSE IF p = "\n"
                 THEN stringLoop(advance(errorf(s, "Invalid line break in string")),
                                 q, data, FALSE)
            ELSE IF p = q THEN [s |-> advance(s), data |-> data]
            ELSE stringLoop(advance(s), q, Append(data, p), FALSE)

\* parseString: position from s.pos, line and column from the last mark.
parseString(s, q) ==
    LET S(r) == [r.s EXCEPT !.tokens =
                    Append(@, [type |-> "String", value |-> r.data, pos |-> s.pos,
                               line |-> s.startLine, column |-> s.startCol])]
    IN S(stringLoop(advance(s), q, <<>>, FALSE))

\* match where s.pos may have reached the end: its peek panics there.
\* On a mismatch the rune stays in place.
match(s, r) ==
    IF pastEnd(s) THEN [s |-> Panics(s), ok |-> FALSE]
    ELSE IF peek(s) = r THEN [s |-> advance(s), ok |-> TRUE]
    ELSE [s |-> errorf(s, "Unexpected"), ok |-> FALSE]

\* scan, case '-'.
scanArrow(s) ==
    LET M(m) == IF m.ok THEN pushToken(m.s, "Arrow") ELSE m.s
    IN M(match(advance(mark(s)), ">"))

\* One iteration of the loop of scan, entered with !s.eof().
scanStep(s) ==
    LET p == peek(s)
    IN IF p \in {" ", "\n", "\t", "\r"} THEN advance(s)
       ELSE IF p = "#" THEN pushToken(commentBody(mark(advance(s))), "Comment")
       ELSE IF p \in {"\"", "'"} THEN parseString(s, p)
       ELSE IF p = "-" THEN scanArrow(s)
       ELSE IF p \in DOMAIN simpleTokens THEN pushSimple(s, simpleTokens[p])
       ELSE IF isDigit(p)
            THEN IF peek1(s) = "x" THEN parseHex(s) ELSE parseNumber(s)
       ELSE IF isAscii(p) THEN parseIdentifier(s)
       ELSE advance(errorf(s, "Unexpected"))

\* scan after its loop: the EOF token.
scanEOF(s) ==
    LET m == mark(s)
    IN [m EXCEPT !.pc = "done",
                 !.tokens = Append(@, [type |-> "EOF", value |-> <<>>, pos |-> m.startPos,
                                       line |-> m.line, column |-> m.column])]

\* The runes the inputs are made of: letters inside and outside a-f, digits,
\* x, the arrow's runes, white space, comment, quote, escape, a simple
\* token and a rune the lexer knows nothing of.
Alphabet == {"a", "g", "x", "0", "7", "-", ">", " ", "\n", "#", "\"", "\\", ";", "$"}

RECURSIVE InputsOf(_)
InputsOf(n) ==
    IF n = 0 THEN {<<>>}
    ELSE LET shorter == InputsOf(n - 1)
         IN shorter \cup {Append(d, r) : d \in shorter, r \in Alphabet}

InitLex ==
    /\ Idle
    /\ vd = NoValidator
    /\ pa = NoParser
    /\ \E data \in InputsOf(MaxInput) : lx = newLexer(data)

lexScan ==
    /\ lx.pc = "scan"
    /\ ~eof(lx)
    /\ lx' = scanStep(lx)
    /\ UNCHANGED <<disk, pc, callee, stack, processedPaths, files, calls, stageErrs,
                   ret, opened, again, vd, pa>>

lexEOF ==
    /\ lx.pc = "scan"
    /\ eof(lx)
    /\ lx' = scanEOF(lx)
    /\ UNCHANGED <<disk, pc, callee, stack, processedPaths, files, calls, stageErrs,
                   ret, opened, again, vd, pa>>

NextLex == lexScan \/ lexEOF

SpecLex == InitLex /\ [][NextLex]_vars

\* parse: what the call ends with.  A panic leaves nothing returned.
parseTokens(tokens) ==
    Only({[pc |-> "done", tokens |-> tokens, crash |-> p.crash,
           tree |-> IF Crashed(p) \/ p.errors # <<>> THEN <<>> ELSE <<p.file>>,
           errs |-> IF Crashed(p) THEN <<>> ELSE p.errors,
           built |-> p.file] :
          p \in {parserParse(newParser(tokens))}})

(***************************************************************************)
(* The token sequences parse is run on: the tokens of a few texts, cut     *)
(* after any number of tokens, with the EOF token on the line of the last  *)
(* token (the text does not end in a line break) or on the next line.      *)
(***************************************************************************)
packageLine == <<Id("package"), Id("p"), Sy("Semi")>>

annotationOf(args) ==
    <<Sy("AtSign"), Id("m"), Sy("LeftParen")>> \o args \o <<Sy("RightParen")>>

structTokens == <<Id("struct"), Id("S"), Sy("LeftCurly"), Sy("RightCurly")>>

fieldOf(type) ==
    <<Id("struct"), Id("S"), Sy("LeftCurly"), Id("f")>> \o type
        \o <<Sy("Semi"), Sy("RightCurly")>>

methodOf(params, returns) ==
    <<Id("service"), Id("X"), Sy("LeftCurly"), Id("M"), Sy("LeftParen")>> \o params
        \o <<Sy("RightParen")>> \o returns \o <<Sy("Semi"), Sy("RightCurly")>>

\* The annotated declarations: the argument lists of the annotation.
AnnotationArgLists ==
    {<<Str("a")>>, <<Str("a"), Sy("Comma"), Str("b")>>,
     <<Str("a"), Sy("Comma"), Str("b"), Sy("Comma"), Str("a")>>}

AnnotatedTexts ==
    {<<packageLine, annotationOf(args) \o structTokens>> : args \in AnnotationArgLists}
    \cup {<<packageLine, annotationOf(args), structTokens>> : args \in AnnotationArgLists}

ParseTexts ==
    AnnotatedTexts \cup
    {<<packageLine, structTokens>>,
     <<packageLine, <<Cm("c")>>, <<Cm("d")>>, structTokens>>,
     <<packageLine, <<Sy("AtSign"), Id("m")>>, structTokens>>,
     <<packageLine, annotationOf(<<>>) \o structTokens>>,
     <<packageLine, fieldOf(<<Id("int32")>>)>>,
     <<packageLine, fieldOf(<<Id("T")>>)>>,
     <<packageLine, fieldOf(<<Id("p"), Sy("Period"), Id("T")>>)>>,
     <<packageLine, fieldOf(<<Id("optional"), Sy("LeftAngled"), Id("T"),
                              Sy("RightAngled")>>)>>,
     <<packageLine, fieldOf(<<Id("map"), Sy("LeftAngled"), Id("string"), Sy("Comma"),
                              Id("T"), Sy("RightAngled")>>)>>,
     <<packageLine, <<Id("struct"), Id("S"), Sy("LeftCurly")>>,
       <<Id("enum"), Id("E"), Sy("LeftCurly"), Id("A"), Sy("Equal"), Num("0"),
         Sy("Semi"), Sy("RightCurly")>>,
       <<Sy("RightCurly")>>>>,
     <<packageLine, <<Id("enum"), Id("E"), Sy("LeftCurly"), Id("A"), Sy("Equal"),
                      Num("99999999999999999999"), Sy("Semi"), Sy("RightCurly")>>>>,
     <<packageLine, methodOf(<<>>, <<>>)>>,
     <<packageLine, methodOf(<<Id("i"), Id("S")>>, <<Sy("Arrow"), Id("S")>>),
       methodOf(<<>>, <<>>)>>,
     <<packageLine, methodOf(<<Id("stream"), Id("S"), Sy("Comma"), Id("i"), Id("T")>>,
                             <<Sy("Arrow"), Sy("LeftParen"), Id("S"), Sy("Comma"),
                               Id("stream"), Id("T"), Sy("RightParen")>>)>>,
     <<packageLine, <<Id("import"), Str("b"), Sy("Semi")>>>>,
     <<packageLine, <<Id("import"), Str("b"), Id("as"), Id("q"), Sy("Semi")>>>>,
     <<packageLine, <<Id("import"), Str("b"), Id("as"), Str("q"), Sy("Semi")>>>>,
     <<packageLine, <<Id("x"), Id("y")>>, structTokens>>,
     <<packageLine, <<Sy("RightCurly"), Sy("Semi")>> \o structTokens>>,
     <<<<Id("package"), Id("p"), Sy("Period"), Id("S"), Sy("Semi")>>, structTokens>>,
     <<<<Id("struct"), Id("S")>>>>}

\* The first k tokens and the EOF token.
CutAt(tokens, k, sameLine) ==
    LET last == IF k = 0 THEN 1 ELSE tokens[k].line
    IN SubSeq(tokens, 1, k) \o <<Tok("EOF", "", IF sameLine THEN last ELSE last + 1)>>

TokenInputs ==
    UNION {{CutAt(Numbered(text, 1), k, sameLine) :
               k \in 0..Len(Numbered(text, 1)), sameLine \in BOOLEAN} :
           text \in ParseTexts}

InitParse ==
    /\ Idle
    /\ lx = NoLexer
    /\ vd = NoValidator
    /\ \E tokens \in TokenInputs : pa = [pc |-> "parse", tokens |-> tokens]

\* parse(filepath, tokens, onError)
runParse ==
    /\ pa.pc = "parse"
    /\ pa' = parseTokens(pa.tokens)
    /\ UNCHANGED <<disk, pc, callee, stack, processedPaths, files, calls, stageErrs,
                   ret, opened, again, lx, vd>>

NextParse == runParse

SpecParse == InitParse /\ [][NextParse]_vars

(***************************************************************************)
(* Vocabulary of the properties.                                           *)
(***************************************************************************)
Started(st) == st \in Range(calls)

\* Stage st was started and has returned (it did not crash).
Returned(st) ==
    /\ Started(st)
    /\ pc \notin {"panic", "overflow"}

Succeeded == ret.returned /\ ret.tree # <<>>

\* Every type expression inside t, t included.
RECURSIVE SubTypes(_)
SubTypes(t) ==
    {t} \cup (IF t.k \in {"opt", "arr"} THEN SubTypes(t.sub[1])
              ELSE IF t.k = "map" THEN SubTypes(t.sub[1]) \cup SubTypes(t.sub[2])
              ELSE {})

\* The structs of a file at any depth, and their field types.
RECURSIVE StructsWithin(_)
StructsWithin(s) == {s} \cup UNION {StructsWithin(s.structs[i]) : i \in 1..Len(s.structs)}

AllStructs(f) == UNION {StructsWithin(f.structs[i]) : i \in 1..Len(f.structs)}

AllEnums(f) == Range(f.enums) \cup UNION {Range(s.enums) : s \in AllStructs(f)}

FieldTypesOf(f) == UNION {{s.fields[i].type : i \in 1..Len(s.fields)} : s \in AllStructs(f)}

AllMethods(f) == UNION {Range(sv.methods) : sv \in Range(f.services)}

SignatureTypesOf(f) == UNION {Range(MethodTypes(m)) : m \in AllMethods(f)}

\* Every user-type occurrence of a file.
UserTypesOf(f) ==
    {u \in UNION {SubTypes(t) : t \in FieldTypesOf(f) \cup SignatureTypesOf(f)} :
        IsResolvable(u)}

IsResolved(fs, u) ==
    /\ u.res # <<>>
    /\ u.res[1].kind \in {"struct", "enum"}
    /\ u.fqn = ObjFQN(fs, u.res[1])

\* The names some file declares a struct or an enum under.
DeclaredNames(fs) ==
    UNION {{d.name : d \in AllStructs(fs[p]) \cup AllEnums(fs[p])} : p \in DOMAIN fs}

\* A reference whose last component no declaration of the program carries.
Undeclared(fs, u) == IsResolvable(u) /\ Last(u.name) \notin DeclaredNames(fs)

\* The entry file as written, and as the validation phases left it.
Written == disk[entrypoint]
Entry == files[entrypoint]

(***************************************************************************)
(* C1.                                                                     *)
(***************************************************************************)
\* C1: the stages run in the order parse, validatePhase1, validatePhase2,
\* validatePhase3; a stage is started only if every earlier stage returned
\* no error; Run returns the error of the first failing stage with a nil
\* tree; a Tree is returned only when every stage returned no error; and no
\* file whose text has lexer or parser errors is handed to a validation
\* phase.
C1_StagesShortCircuit ==
    /\ IsPrefix(calls, Stages)
    /\ \A i \in 2..Len(calls) : stageErrs[calls[i - 1]] = <<>>
    /\ ret.returned =>
          IF stageErrs[Last(calls)] # <<>>
          THEN ret.tree = <<>> /\ ret.err = stageErrs[Last(calls)]
          ELSE /\ ret.tree # <<>>
               /\ ret.err = <<>>
               /\ calls = Stages
               /\ \A st \in Range(Stages) : stageErrs[st] = <<>>
    /\ Len(calls) > 1 =>
          \A p \in DOMAIN files :
              lexFile(disk[p]) = <<>> /\ parseErrors(disk[p]) = <<>>

\* validatePhase1 failed: Run returned its error and validatePhase2 was never
\* started.
C1_Witness ==
    /\ ret.returned
    /\ calls = <<"parse", "validatePhase1">>
    /\ ret.err # <<>>
    /\ ret.tree = <<>>

(***************************************************************************)
(* C2.                                                                     *)
(***************************************************************************)
\* C2: after Run succeeds, every user-type occurrence of every parsed file
\* (the entry file and the imported ones) has a resolved target that is a
\* Struct or an Enum, and carries the FQN of that target.
C2_EveryFileResolved ==
    Succeeded =>
        \A p \in DOMAIN files : \A u \in UserTypesOf(files[p]) : IsResolved(files, u)

(***************************************************************************)
(* C3.                                                                     *)
(***************************************************************************)
\* C3: validatePhase2 returns an error whenever a struct field's type
\* contains, directly or inside an optional, array, map key or map value, a
\* user type reference that matches no declared struct or enum (also when
\* the reference is the value of a map whose key is legal).
C3_UndefinedReported ==
    (/\ Started("validatePhase2")
     /\ \E t \in FieldTypesOf(Entry) : \E u \in SubTypes(t) : Undeclared(files, u))
    => stageErrs["validatePhase2"] # <<>>

(***************************************************************************)
(* C4.                                                                     *)
(***************************************************************************)
BadKeyMap(t) == t.k = "map" /\ t.sub[1].k \in {"opt", "arr", "map"}

\* A map whose key is string, or a resolved user type, and whose value is a
\* primitive or a resolved user type.
GoodMap(t) ==
    /\ t.k = "map"
    /\ \/ t.sub[1] = Prim("string")
       \/ IsResolvable(t.sub[1]) /\ IsResolved(files, t.sub[1])
    /\ \/ t.sub[2].k = "prim"
       \/ IsResolvable(t.sub[2]) /\ IsResolved(files, t.sub[2])

\* C4: validatePhase2 returns an error for every struct field whose type
\* contains a map with an Optional, Array or Map key, whatever the value
\* type; it returns no error when the only types of the file are maps with
\* a string, enum or struct key and a value that resolves.
C4_MapKeys ==
    Started("validatePhase2") =>
        /\ (\E t \in FieldTypesOf(Entry) : \E m \in SubTypes(t) : BadKeyMap(m))
           => stageErrs["validatePhase2"] # <<>>
        /\ (/\ Returned("validatePhase2")
            /\ SignatureTypesOf(Entry) = {}
            /\ \A t \in FieldTypesOf(Entry) : GoodMap(t))
           => stageErrs["validatePhase2"] = <<>>

(***************************************************************************)
(* C5.                                                                     *)
(***************************************************************************)
\* C5: a file with a map type whose key is the primitive bytes is rejected:
\* Run never returns a tree for it.
C5_BytesKeyRejected ==
    (/\ ret.returned
     /\ \E t \in FieldTypesOf(Written) : \E m \in SubTypes(t) :
            m.k = "map" /\ m.sub[1] = Prim("bytes"))
    => ret.tree = <<>>

(***************************************************************************)
(* C6.                                                                     *)
(***************************************************************************)
\* C6: validatePhase2 returns no error only if every method parameter and
\* return type is a user type that resolved to a Struct; any other
\* parameter or return type makes it return an error.
C6_MethodTypesAreStructs ==
    /\ (Returned("validatePhase2") /\ stageErrs["validatePhase2"] = <<>>)
       => \A t \in SignatureTypesOf(Entry) :
              IsResolvable(t) /\ t.res # <<>> /\ t.res[1].kind = "struct"
    /\ (Started("validatePhase2") /\ \E t \in SignatureTypesOf(Entry) : ~IsResolvable(t))
       => stageErrs["validatePhase2"] # <<>>

(***************************************************************************)
(* C7.                                                                     *)
(***************************************************************************)
\* Two types resolved to different things.
RECURSIVE TypeDiffers(_, _)
TypeDiffers(a, b) ==
    IF IsResolvable(a) /\ IsResolvable(b) THEN a.res # b.res
    ELSE IF a.k # b.k THEN TRUE
    ELSE IF a.k = "prim" THEN a.name # b.name
    ELSE \E i \in 1..Len(a.sub) : TypeDiffers(a.sub[i], b.sub[i])

SignatureDiffers(m, ex) ==
    \/ Len(m.params) # Len(ex.params)
    \/ Len(m.returns) # Len(ex.returns)
    \/ \E i \in 1..Len(m.params) :
          \/ m.params[i].name # ex.params[i].name
          \/ m.params[i].stream # ex.params[i].stream
          \/ TypeDiffers(m.params[i].type, ex.params[i].type)
    \/ \E i \in 1..Len(m.returns) :
          \/ m.returns[i].stream # ex.returns[i].stream
          \/ TypeDiffers(m.returns[i].type, ex.returns[i].type)

DivergentPair(f) ==
    \E sv \in Range(f.services) : \E i, j \in 1..Len(sv.methods) :
        /\ i < j
        /\ sv.methods[i].name = sv.methods[j].name
        /\ SignatureDiffers(sv.methods[i], sv.methods[j])

\* C7: given that phases 1 and 2 passed, validatePhase3 returns an error if
\* and only if some service has two methods of one name whose signatures
\* differ (parameter count, a parameter's name, stream flag or resolved
\* type, return count, a return's stream flag or resolved type).
C7_DivergenceIffError ==
    Started("validatePhase3") =>
        (stageErrs["validatePhase3"] # <<>> <=> DivergentPair(Entry))

(***************************************************************************)
(* C8.                                                                     *)
(***************************************************************************)
\* The entry file as written imports nothing and reopens one service, and
\* the methods of one name in its blocks are written identically.
IdenticalReopening ==
    /\ Written.imports = <<>>
    /\ Len(Written.services) >= 2
    /\ \A i, j \in 1..Len(Written.services) :
          /\ Written.services[i].name = Written.services[j].name
          /\ \A m \in Range(Written.services[i].methods) :
                \A n \in Range(Written.services[j].methods) :
                    m.name = n.name => m = n

TreeServices == ret.tree[1][Written.pkg].services

\* C8: a service reopened with identically written methods passes parse and
\* the three phases, and the tree holds one service of that name, in which
\* every method name occurs once.
C8_ReopenedOnce ==
    (IdenticalReopening /\ ret.returned) =>
        /\ ret.tree # <<>>
        /\ Len(TreeServices) = 1
        /\ \A i, j \in 1..Len(TreeServices[1].methods) :
              i # j => TreeServices[1].methods[i].name # TreeServices[1].methods[j].name

(***************************************************************************)
(* C9.                                                                     *)
(***************************************************************************)
\* The top-level structs that the fields of top-level struct i directly
\* resolve to.
DirectRefs(f, i) ==
    {f.structs[i].fields[k].type.res[1] :
        k \in {k \in 1..Len(f.structs[i].fields) :
                  /\ IsResolvable(f.structs[i].fields[k].type)
                  /\ f.structs[i].fields[k].type.res # <<>>}}

DirectCycle(f) ==
    \E i, j \in 1..Len(f.structs) :
        /\ StructObj(entrypoint, <<j>>) \in DirectRefs(f, i)
        /\ StructObj(entrypoint, <<i>>) \in DirectRefs(f, j)

\* C9: a struct with a field that directly resolves to the struct itself,
\* and two structs with fields that directly resolve to each other, make
\* validatePhase3 return an error; structs that only reference a third
\* struct pass it.
C9_DirectCyclesFail ==
    Started("validatePhase3") =>
        /\ DirectCycle(Entry) => stageErrs["validatePhase3"] # <<>>
        /\ (~DirectCycle(Entry) /\ Entry.services = <<>>)
           => stageErrs["validatePhase3"] = <<>>

(***************************************************************************)
(* C10.                                                                    *)
(***************************************************************************)
\* More than one stream entry, or a stream entry that is not the last.
BadStreams(list) ==
    \/ Cardinality({i \in 1..Len(list) : list[i].stream}) > 1
    \/ \E i \in 1..(Len(list) - 1) : list[i].stream

BadStreamMethod ==
    \E m \in AllMethods(Written) : BadStreams(m.params) \/ BadStreams(m.returns)

\* C10: a file with a method that has more than one streaming parameter or
\* return, or a streaming one that is not last, never gets past
\* validatePhase1: parse or validatePhase1 returns an error and
\* validatePhase2 is never started.
C10_StreamOnlyLast ==
    BadStreamMethod =>
        /\ ~Started("validatePhase2")
        /\ pc # "validatePhase2"
        /\ ret.returned =>
              stageErrs["parse"] # <<>> \/ stageErrs["validatePhase1"] # <<>>

\* M(stream S, stream S) was run through Run, which returned an error.
C10_Witness ==
    /\ ret.returned
    /\ ret.err # <<>>
    /\ \E m \in AllMethods(Written) :
          Len(m.params) = 2 /\ m.params[1].stream /\ m.params[2].stream

(***************************************************************************)
(* C11.                                                                    *)
(***************************************************************************)
HasRepeatedField(s) == Repeated(s.fields) # {}

\* C11: validatePhase1 returns an error whenever some struct of the entry
\* file, at the top level or nested at any depth, has two fields of one
\* name.
C11_DuplicateFieldsReported ==
    (/\ Started("validatePhase1")
     /\ \E s \in AllStructs(Written) : HasRepeatedField(s))
    => stageErrs["validatePhase1"] # <<>>

\* validatePhase1 returned an error for a file whose only repeated field
\* name is in a struct nested MaxDepth levels deep.
C11_Witness ==
    /\ Returned("validatePhase1")
    /\ stageErrs["validatePhase1"] # <<>>
    /\ Written \in DupFieldFiles
    /\ ~HasRepeatedField(Written.structs[2])
    /\ \E s \in AllStructs(Written) : HasRepeatedField(s) /\ s.structs = <<>>

(***************************************************************************)
(* C13.                                                                    *)
(***************************************************************************)
HasRepeatedParam(m) ==
    \E i, j \in 1..Len(m.params) :
        /\ i < j
        /\ m.params[i].name # <<>>
        /\ m.params[i].name = m.params[j].name

\* C13: validatePhase1 returns an error whenever a method of the entry file
\* has two named parameters of one name.
C13_DuplicateParamsReported ==
    (/\ Started("validatePhase1")
     /\ \E m \in AllMethods(Written) : HasRepeatedParam(m))
    => stageErrs["validatePhase1"] # <<>>

(***************************************************************************)
(* C14.                                                                    *)
(***************************************************************************)
HasRepeatedMember(e) == Repeated(e.members) # {}

\* C14: validatePhase1 returns an error for an enum without members and for
\* an enum with two members of one name; for a file whose enum has members
\* of distinct names it returns no error, whatever the members' values.
C14_EnumMembers ==
    Started("validatePhase1") =>
        /\ (\E e \in AllEnums(Written) : e.members = <<>> \/ HasRepeatedMember(e))
           => stageErrs["validatePhase1"] # <<>>
        /\ (/\ Written \in EnumFiles
            /\ \A e \in AllEnums(Written) : e.members # <<>> /\ ~HasRepeatedMember(e))
           => stageErrs["validatePhase1"] = <<>>

\* validatePhase1 accepted an enum with two members of distinct names and
\* one value.
C14_Witness ==
    /\ Returned("validatePhase1")
    /\ stageErrs["validatePhase1"] = <<>>
    /\ \E e \in AllEnums(Written) :
          /\ Len(e.members) = 2
          /\ e.members[1].name # e.members[2].name
          /\ e.members[1].value = e.members[2].value

(***************************************************************************)
(* C15.                                                                    *)
(***************************************************************************)
\* The index paths of the structs and of the enums of a file.
RECURSIVE StructPaths(_, _)
StructPaths(s, ip) ==
    {ip} \cup UNION {StructPaths(s.structs[i], ip \o <<i>>) : i \in 1..Len(s.structs)}

FileStructPaths(f) == UNION {StructPaths(f.structs[i], <<i>>) : i \in 1..Len(f.structs)}

FileEnumPaths(f) ==
    {<<i>> : i \in 1..Len(f.enums)}
    \cup UNION {{ip \o <<j>> : j \in 1..Len(StructAt(f, ip).enums)} :
                ip \in FileStructPaths(f)}

\* Every Struct, Enum and Service declaration of the program with its FQN.
Declarations(fs) ==
    UNION {{[file |-> p, kind |-> "struct", ip |-> ip, fqn |-> StructFQN(fs[p], ip)] :
                ip \in FileStructPaths(fs[p])}
           \cup {[file |-> p, kind |-> "enum", ip |-> ip, fqn |-> EnumFQN(fs[p], ip)] :
                    ip \in FileEnumPaths(fs[p])}
           \cup {[file |-> p, kind |-> "service", ip |-> <<i>>,
                   fqn |-> ServiceFQN(fs[p], fs[p].services[i])] :
                    i \in 1..Len(fs[p].services)} :
           p \in DOMAIN fs}

ProgramClash(fs) ==
    \E d, e \in Declarations(fs) : d # e /\ d.fqn = e.fqn

\* C15: validatePhase1 returns an error whenever two Struct, Enum or Service
\* declarations of the parsed program, in the entry file or in any imported
\* file, have the same FQN.
C15_ProgramWideClash ==
    (Started("validatePhase1") /\ ProgramClash(files))
    => stageErrs["validatePhase1"] # <<>>

(***************************************************************************)
(* C19.                                                                    *)
(***************************************************************************)
\* Every name a file declares: structs, enums, services, methods, fields,
\* enum members, named method parameters and import aliases.
NamesDeclaredIn(f) ==
    {d.name : d \in AllStructs(f) \cup AllEnums(f) \cup Range(f.services) \cup AllMethods(f)}
    \cup UNION {{fd.name : fd \in Range(st.fields)} : st \in AllStructs(f)}
    \cup UNION {{mb.name : mb \in Range(e.members)} : e \in AllEnums(f)}
    \cup UNION {{pr.name[1] : pr \in {q \in Range(m.params) : q.name # <<>>}} :
                m \in AllMethods(f)}
    \cup {im.alias : im \in {i \in Range(f.imports) : i.alias # ""}}

\* C19: a file in which some declared name is a reserved word never gets
\* past validatePhase1: parse or validatePhase1 returns an error and
\* validatePhase2 is never started.
C19_ReservedNamesRejected ==
    (NamesDeclaredIn(Written) \cap reservedNames # {}) =>
        /\ ~Started("validatePhase2")
        /\ pc # "validatePhase2"
        /\ ret.returned =>
              stageErrs["parse"] # <<>> \/ stageErrs["validatePhase1"] # <<>>

(***************************************************************************)
(* C16 and C17: the import graph of what is on disk.                       *)
(***************************************************************************)
\* The paths the imports of the file at p name.
ImportsOf(d, p) ==
    IF p \in DOMAIN d
    THEN {cleanPath(d[p].imports[i].value) : i \in 1..Len(d[p].imports)}
    ELSE {}

RECURSIVE ReachFrom(_, _, _)
ReachFrom(d, S, n) ==
    IF n = 0 THEN S
    ELSE ReachFrom(d, S \cup UNION {ImportsOf(d, p) : p \in S}, n - 1)

\* The paths reachable from the entry point, the entry point included.
Reachable(d) == ReachFrom(d, {entrypoint}, Cardinality(DOMAIN d))

OnCycle(d, p) == p \in ReachFrom(d, ImportsOf(d, p), Cardinality(DOMAIN d))

CyclicImports(d) == \E p \in Reachable(d) : OnCycle(d, p)

\* Every reachable file exists, lexes and parses.
Readable(d) ==
    \A p \in Reachable(d) :
        p \in DOMAIN d /\ lexFile(d[p]) = <<>> /\ parseErrors(d[p]) = <<>>

\* C16: when the import graph has a cycle (A imports B and B imports A, or a
\* file imports itself) and every file is valid, frontend.parse terminates
\* without error, and on its return every file of the graph is in files.
C16_CyclesTerminate ==
    (CyclicImports(disk) /\ Readable(disk)) =>
        /\ pc # "overflow"
        /\ stageErrs["parse"] = <<>>
        /\ Len(calls) > 1 => Reachable(disk) \subseteq DOMAIN files

\* C17: when the import graph has no cycle, frontend.parse reads no path
\* twice; it returns an error only if a reachable file is missing or has
\* lexer or parser errors; and on its return files holds exactly the
\* reachable paths, each read once, and the ResolvedValue of every import is
\* a key of files.
C17_AcyclicOnce ==
    ~CyclicImports(disk) =>
        /\ \A i, j \in 1..Len(opened) : i # j => opened[i] # opened[j]
        /\ pc # "overflow"
        /\ Readable(disk) => stageErrs["parse"] = <<>>
        /\ Len(calls) > 1 =>
              /\ DOMAIN files = Reachable(disk)
              /\ Range(opened) = Reachable(disk)
              /\ \A p \in DOMAIN files : \A i \in 1..Len(files[p].imports) :
                    files[p].imports[i].resolved \in DOMAIN files

\* frontend.parse returned for a diamond: two files import /d.arf, and all
\* four files are in files.
C17_Witness ==
    /\ Len(calls) > 1
    /\ DOMAIN files = {"/a.arf", "/b.arf", "/c.arf", "/d.arf"}
    /\ "/d.arf" \in ImportsOf(disk, "/b.arf") \cap ImportsOf(disk, "/c.arf")
    /\ Len(opened) = 4

(***************************************************************************)
(* C18.                                                                    *)
(***************************************************************************)
\* C18: a second validatePhase2 over a file set that a first validatePhase2
\* resolved without error finds every reference again (it returns no error
\* and does not crash) and leaves every reference with the resolved target
\* and the FQN the first run gave it, also when several files declare one
\* package.
C18_ResolveIdempotent ==
    again.ran =>
        /\ ~again.panic
        /\ again.errs = <<>>
        /\ Entry = again.before[1]

\* Every struct of a file set, nested ones included.
RECURSIVE structsWithin(_)
structsWithin(s) ==
    {s} \cup UNION {structsWithin(s.structs[i]) : i \in 1..Len(s.structs)}

structsOfSet(set) ==
    UNION {UNION {structsWithin(set[n].structures[i]) : i \in 1..Len(set[n].structures)} :
              n \in 1..Len(set)}

\* Two plain fields of s, union members counted, carry the same index.
SharesIndex(s) ==
    LET fs == visitedFields(s)
    IN \E i \in 1..Len(fs) : \E j \in 1..(i - 1) : fs[i].index = fs[j].index

\* C12: once validate has returned nil, every struct of the file set,
\* top-level or nested, has pairwise distinct indices over its plain fields
\* and the member fields of its unions.
C12_StructIndicesDistinct ==
    (vd.pc = "done" /\ vd.err = <<>>) =>
        \A s \in structsOfSet(vd.set) : ~SharesIndex(s)

\* A rune none of the cases of scan recognises.
Unrecognized(r) ==
    /\ r \notin {" ", "\n", "\t", "\r", "#", "\"", "'", "-"}
    /\ r \notin DOMAIN simpleTokens
    /\ ~isDigit(r)
    /\ ~isAscii(r)

\* C20: lexFile never reads past the end of its input, whatever the input
\* ends in; the tokens it returns end with an EOF token and hold no other
\* EOF token; and a scan step that meets an unrecognised rune adds one
\* error, skips that rune and adds no token.
C20_LexFileTotal ==
    /\ [](lx.pc # "panic")
    /\ [](lx.pc = "done" =>
            /\ lx.tokens # <<>>
            /\ \A i \in 1..Len(lx.tokens) :
                  (lx.tokens[i].type = "EOF") <=> (i = Len(lx.tokens)))
    /\ [][(lx.pc = "scan" /\ ~eof(lx) /\ Unrecognized(peek(lx))) =>
             /\ Len(lx'.errors) = Len(lx.errors) + 1
             /\ lx'.pos = lx.pos + 1
             /\ lx'.tokens = lx.tokens]_vars

\* The input holds one quote rune, outside a comment: the string literal it
\* opens has no closing quote before the end of the input.
UnterminatedString(data) ==
    \E i \in 1..Len(data) :
        /\ data[i] = "\""
        /\ \A j \in 1..Len(data) : j # i => data[j] # "\""
        /\ \A j \in 1..(i - 1) : data[j] # "#"

\* C30: when lexFile has returned for an input with a string literal whose
\* closing quote is missing, it has reported an error, has consumed the
\* input up to its end and has returned a token stream.
C30_UnterminatedStringFlagged ==
    (lx.pc = "done" /\ UnterminatedString(lx.data)) =>
        /\ lx.errors # <<>>
        /\ lx.pos = Len(lx.data)
        /\ lx.tokens # <<>>

\* C27: validatePhase2, once called, returns (nil or an error); it does not
\* end in a runtime panic, whatever dotted names the type references carry.
C27_Phase2Returns ==
    (Started("validatePhase2") /\ ~Started("validatePhase3")) => pc # "panic"

\* The dotted path of the declaration o as it is nested in its file: the
\* package, the enclosing structs from the outermost to the innermost, the
\* declaration's own name.
NestingPath(fs, o) ==
    LET f == fs[o.file]
        outer == [j \in 1..(Len(o.ip) - 1) |-> StructAt(f, SubSeq(o.ip, 1, j)).name]
        own == IF o.kind = "struct" THEN StructAt(f, o.ip).name ELSE EnumAt(f, o.ip).name
    IN f.pkg \o outer \o <<own>>

\* C22: the FQN validatePhase2 has stored on a resolved type reference
\* (SetFQN(obj.FQN())) is the package of the target's file, the names of the
\* target's enclosing structs from outermost to innermost and the target's
\* own name.
C22_FQNIsNestingPath ==
    Started("validatePhase2") =>
        \A u \in UserTypesOf(Entry) :
            u.res # <<>> => u.fqn = NestingPath(files, u.res[1])

\* The nesting path of a declaration of the program: package, enclosing
\* structs from the outermost inwards, own name.
DeclPath(fs, d) ==
    IF d.kind = "service" THEN fs[d.file].pkg \o <<fs[d.file].services[d.ip[1]].name>>
    ELSE NestingPath(fs, d)

\* No two struct, enum or service declarations of the entry file have the
\* same nesting path.
DistinctPaths(fs) ==
    \A d, e \in Declarations(fs) :
        (d.file = entrypoint /\ e.file = entrypoint /\ d # e)
            => DeclPath(fs, d) # DeclPath(fs, e)

\* C23: when no two declarations of the entry file have the same nesting
\* path, their FQNs are pairwise distinct and validatePhase1 reports no
\* name clash.
C23_NoSpuriousClash ==
    (Started("validatePhase1") /\ DistinctPaths(files)) =>
        /\ \A d, e \in Declarations(files) :
              (d.file = entrypoint /\ e.file = entrypoint /\ d # e) => d.fqn # e.fqn
        /\ "name_clash" \notin Range(stageErrs["validatePhase1"])

\* Two imports of the entry file end up under one alias, written or taken
\* from the last component of the imported file's package.
SharesAlias(fs) ==
    LET imps == fs[entrypoint].imports
        alias(i) == defineImportAlias(fs, imps[i]).alias
    IN \E i, j \in 1..Len(imps) : i < j /\ alias(i) = alias(j)

\* Two declarations of the entry file have the same FQN.
EntryClash(fs) ==
    \E d, e \in Declarations(fs) :
        d.file = entrypoint /\ e.file = entrypoint /\ d # e /\ d.fqn = e.fqn

\* The kinds of violation the declarations of file f hold, apart from name
\* clashes.
ViolationsIn(f) ==
    {k \in {"duplicate_field", "empty_enum", "duplicate_member", "duplicate_param",
            "param_name"} :
        \/ k = "duplicate_field" /\ \E s \in AllStructs(f) : HasRepeatedField(s)
        \/ k = "empty_enum" /\ \E e \in AllEnums(f) : e.members = <<>>
        \/ k = "duplicate_member" /\ \E e \in AllEnums(f) : HasRepeatedMember(e)
        \/ k = "duplicate_param" /\ \E m \in AllMethods(f) : HasRepeatedParam(m)
        \/ k = "param_name"
           /\ \E m \in AllMethods(f) : \E i \in 1..Len(m.params) :
                 m.params[i].name # <<>> /\ ~snakeCaseRegex(m.params[i].name[1])}

\* C28: the errors validatePhase1 returns hold every violation of its input:
\* a repeated import alias, a name clash, and, when no declaration is left
\* out as a clash, every kind of violation its declarations hold.
C28_EveryViolationReported ==
    (Started("validatePhase1") /\ pc # "panic") =>
        LET errs == Range(stageErrs["validatePhase1"])
        IN /\ SharesAlias(files) => "duplicate_alias" \in errs
           /\ EntryClash(files) => "name_clash" \in errs
           /\ ~EntryClash(files) => ViolationsIn(Entry) \subseteq errs

\* C21: on every token sequence ending with EOF, parse ends without
\* reading past the last token or dereferencing a nil token, and returns
\* a file or at least one error.
C21_ParseTotal ==
    pa.pc = "done" => pa.crash = "" /\ (pa.tree # <<>> \/ pa.errs # <<>>)

\* The string arguments written between the parentheses of the annotation.
WrittenArguments(tokens) ==
    LET strings == SelectSeq(tokens, LAMBDA t : t.type = "String")
    IN [i \in 1..Len(strings) |-> strings[i].value]

AnnotatedInputs ==
    {CutAt(Numbered(text, 1), Len(Numbered(text, 1)), sameLine) :
        text \in AnnotatedTexts, sameLine \in BOOLEAN}

\* C29: "@m(a1, ..., an)" with n >= 1 string arguments before a struct
\* parses without error, and the struct carries one annotation m whose
\* arguments are a1..an in the order written.
C29_AnnotationArguments ==
    (pa.pc = "done" /\ pa.tokens \in AnnotatedInputs) =>
        /\ pa.crash = ""
        /\ pa.errs = <<>>
        /\ pa.tree # <<>>
        /\ pa.built.structs[1].annotations =
               <<[name |-> "m", arguments |-> WrittenArguments(pa.tokens)]>>

\* The index paths of the structs of a file, at any depth.
RECURSIVE PathsBelow(_, _)
PathsBelow(f, ip) ==
    {ip} \cup UNION {PathsBelow(f, ip \o <<j>>) : j \in 1..Len(StructAt(f, ip).structs)}

StructIndexPaths(f) == UNION {PathsBelow(f, <<i>>) : i \in 1..Len(f.structs)}

\* The declaration a one-component name denotes inside the struct at ip:
\* that of the innermost enclosing container declaring the name, the file
\* being the outermost container.
RECURSIVE ScopedTarget(_, _, _, _)
ScopedTarget(fs, path, ip, name) ==
    LET here == Descend(fs, path, ip, <<name>>)
    IN IF here # <<>> \/ ip = <<>> THEN here
       ELSE ScopedTarget(fs, path, SubSeq(ip, 1, Len(ip) - 1), name)

\* C24: a one-component reference in a field of struct C resolves to the
\* declaration of that name in the innermost container around the field:
\* C itself, then each enclosing struct outward, then the file.
C24_InnermostScopeWins ==
    (Started("validatePhase2") /\ pc # "panic") =>
        \A ip \in StructIndexPaths(Entry) :
            \A i \in 1..Len(StructAt(Entry, ip).fields) :
                \A u \in SubTypes(StructAt(Entry, ip).fields[i].type) :
                    (u.k = "simple"
                     /\ ScopedTarget(files, entrypoint, ip, u.name[1]) # <<>>) =>
                        u.res = ScopedTarget(files, entrypoint, ip, u.name[1])

\* The declarations a dotted name spells in full: some leading components
\* are the package of a parsed file and the rest is a path through the
\* nested structs of that file to a struct or an enum.
QualifiedTargets(fs, name) ==
    {obj \in UNION {Range(Descend(fs, path, <<>>, SubSeq(name, i + 1, Len(name)))) :
                       path \in DOMAIN fs, i \in 1..(Len(name) - 1)} :
        \E path \in DOMAIN fs : \E i \in 1..(Len(name) - 1) :
            /\ fs[path].pkg = SubSeq(name, 1, i)
            /\ obj \in Range(Descend(fs, path, <<>>, SubSeq(name, i + 1, Len(name))))}

\* C25: a dotted reference that spells the package of a parsed file (the
\* entry file's own package of one or several components, or another
\* package) followed by a path through nested structs resolves to the
\* declaration at the end of that path.
C25_FullyQualifiedResolves ==
    (Started("validatePhase2") /\ pc # "panic") =>
        \A u \in UserTypesOf(Entry) :
            (u.k = "fq" /\ QualifiedTargets(files, u.name) # {}) =>
                u.res # <<>> /\ u.res[1] \in QualifiedTargets(files, u.name)

\* The declaration "alias.rest" names: rest walked through the file the
\* alias was registered for.
AliasedTarget(fs, f, name) == Descend(fs, AliasTarget(f, name[1]), <<>>, Tail(name))

\* C26: a reference whose first component is an import alias of the entry
\* file (explicit or synthesized) resolves to the declaration the rest of
\* the name denotes in the imported file, at the top level or nested.
C26_AliasResolves ==
    (Started("validatePhase2") /\ pc # "panic") =>
        \A u \in UserTypesOf(Entry) :
            (/\ u.k = "fq"
             /\ HasAlias(Entry, u.name[1])
             /\ AliasTarget(Entry, u.name[1]) \in DOMAIN files
             /\ AliasedTarget(files, Entry, u.name) # <<>>) =>
                u.res = AliasedTarget(files, Entry, u.name)

====
